---- MODULE Spec2Model ----
(***************************************************************************)
(* Weather aggregation backend: the sync orchestrator of WeatherService    *)
(* (src/src/services/weather_service.py), the background refresh loop of   *)
(* src/src/main.py and the SQLite store behind them.                       *)
(*                                                                         *)
(* Every handler is a coroutine on one asyncio event loop sharing one      *)
(* sqlite3 connection (src/src/db/database.py:100-106): an action of this  *)
(* module is the code a coroutine runs between two suspensions (the awaits *)
(* on the provider), so actions of different tasks interleave exactly      *)
(* where the code can be suspended.                                        *)
(***************************************************************************)
EXTENDS Integers, Sequences, FiniteSets, TLC

VARIABLES
    locations,          \* table locations: row id = index, the columns read or written
    weather_snapshots,  \* table weather_snapshots, per location_id, in insertion order
    forecasts,          \* table forecasts, per location_id, in insertion order
    sync_history,       \* table sync_history, per location_id, in insertion order
    user_preferences,   \* the refresh_interval row of table user_preferences
    now,                \* wall clock, seconds
    tasks,              \* per coroutine: where it is suspended and its locals
    loop,               \* periodic_sync_loop: position, locations still to sync
    attempts,           \* per location id: sync_weather calls that have ended
    refreshes,          \* per location id: those that ended on the refresh path
    ops,                \* number of service calls started so far
    faults,             \* number of provider and store failures so far
    ended,              \* what the last step ended: a service call and its outcome,
                        \* a pass of the loop (observed in the state right after)
    tie_break,          \* how the store orders rows of equal timestamp
    insight,            \* the last call of the insight engine: arguments, result
    rate_limit_buckets, \* _rate_limit_buckets: per client host, admission times
    requests            \* the requests the middleware has answered, in order

vars == <<locations, weather_snapshots, forecasts, sync_history, user_preferences,
          now, tasks, loop, attempts, refreshes, ops, faults, ended, tie_break,
          insight,
                   rate_limit_buckets, requests>>

store == <<locations, weather_snapshots, forecasts, sync_history, user_preferences>>

(***************************************************************************)
(* Bounds of the model.                                                    *)
(***************************************************************************)
\* service calls (sync, add_location, history, loop passes) started in a behaviour
MaxOps == 2
\* failures of the provider or of a store statement during syncs in a behaviour
MaxFaults == 1
\* clock ticks in a behaviour
MaxTicks == 1
\* seconds the clock advances in one tick
TickSeconds == 60

\* requests the middleware answers in a behaviour
MaxRequests == 5

\* seconds the rate limiter's clock runs
MaxRateTime == 4

(***************************************************************************)
(* Optional values: None is <<>>, a present value x is <<x>>.              *)
(***************************************************************************)
None == <<>>
Some(x) == <<x>>
IsSome(o) == o # <<>>
Get(o) == o[1]

\* SQL NULL / Python None in a text column or an Optional[str]
NULL == "NULL"

(***************************************************************************)
(* The world outside: places the geocoder knows, payloads of the provider. *)
(***************************************************************************)
Places == {"London", "Paris"}

\* ids a caller may ask for; rows get ids 1, 2, ... in insertion order
LocIds == 1 .. Cardinality(Places)

Requests == {"r1"}
\* the coroutines of two requests that are in flight together
ConcurrentRequests == {"r1", "r2"}
Tasks == ConcurrentRequests \cup {"bg"}

\* coordinates, in hundredths of a degree
Geo(lat, lon) == [lat |-> lat, lon |-> lon]

\* best_match["lat"], best_match["lon"] for a place: what the geocoder has
\* answered so far, and what it answers once its data are revised
KnownCoords(name) == IF name = "London" THEN Geo(5150, -12) ELSE Geo(4885, 235)
RevisedCoords(name) == IF name = "London" THEN Geo(5151, -13) ELSE Geo(4886, 234)
GeocoderAnswers(name) == {KnownCoords(name), RevisedCoords(name)}

\* current-weather payloads (temperature, wind_speed, weather_main)
Snap(t, w, m) ==
    [temperature |-> t, wind_speed |-> w, weather_main |-> m, timestamp |-> None]
ProviderCurrent ==
    { Snap(14, 12, "clear"), Snap(15, 2, "Clear"), Snap(6, 4, "Rain") }

\* forecast payloads: lists of items (forecast_timestamp, pop in percent)
Item(ts, p) == [forecast_timestamp |-> ts, pop |-> p]
ProviderForecast ==
    { <<>>, <<Item(100, 20), Item(200, 70)>> }

\* history payloads of the provider (api_timestamp descending)
ProviderHistory == { <<>>, <<Snap(7, 2, "Clouds")>> }

ProviderErrorText == "Weather API network error"
StoreErrorText == "database is locked"

(***************************************************************************)
(* Preferences.  A text is a sequence of one-character strings; the        *)
(* refresh_interval row is None (no row), Some(None) (row, NULL value) or  *)
(* Some(Some(text)).                                                       *)
(***************************************************************************)
Digits == <<"0", "1", "2", "3", "4", "5", "6", "7", "8", "9">>

IsDigit(c) == \E i \in 1 .. Len(Digits) : Digits[i] = c

DigitValue(c) == (CHOOSE i \in 1 .. Len(Digits) : Digits[i] = c) - 1

\* str.strip(): leading and trailing blanks removed
RECURSIVE StripLeft(_)
StripLeft(s) == IF s # <<>> /\ Head(s) = " " THEN StripLeft(Tail(s)) ELSE s

RECURSIVE StripRight(_)
StripRight(s) ==
    IF s # <<>> /\ s[Len(s)] = " " THEN StripRight(SubSeq(s, 1, Len(s) - 1)) ELSE s

\* the digits of a literal, read left to right, underscores skipped
RECURSIVE DigitsValue(_, _)
DigitsValue(s, acc) ==
    IF s = <<>> THEN acc
    ELSE IF Head(s) = "_" THEN DigitsValue(Tail(s), acc)
    ELSE DigitsValue(Tail(s), 10 * acc + DigitValue(Head(s)))

\* a decimal literal: digits, single underscores only between digits
IsDecimalLiteral(s) ==
    /\ s # <<>>
    /\ IsDigit(s[1])
    /\ IsDigit(s[Len(s)])
    /\ \A i \in 1 .. Len(s) : IsDigit(s[i]) \/ s[i] = "_"
    /\ \A i \in 1 .. Len(s) - 1 : ~(s[i] = "_" /\ s[i + 1] = "_")

\* Python int(text): Some(n), or None where int raises ValueError
int(text) ==
    LET s == StripRight(StripLeft(text))
        signed == s # <<>> /\ s[1] \in {"-", "+"}
        body == IF signed THEN Tail(s) ELSE s
    IN  IF ~IsDecimalLiteral(body) THEN None
        ELSE IF signed /\ s[1] = "-" THEN Some(0 - DigitsValue(body, 0))
        ELSE Some(DigitsValue(body, 0))

max(a, b) == IF a >= b THEN a ELSE b

\* default of refresh_interval, and its floor
DefaultRefreshInterval == 600
MinRefreshInterval == 60
DefaultRefreshText == <<"6", "0", "0">>

\* WeatherService._get_preference_value("refresh_interval", fallback) on a row
get_preference_value(row, fallback) ==
    IF IsSome(row) /\ IsSome(Get(row)) THEN Get(Get(row)) ELSE fallback

sync_cache_age_seconds_floor_missing(row) ==
    LET parsed == int(get_preference_value(row, DefaultRefreshText))
    IN  IF IsSome(parsed) THEN Get(parsed) ELSE DefaultRefreshInterval

\* WeatherService._sync_cache_age_seconds
sync_cache_age_seconds(row) ==
    LET parsed == int(get_preference_value(row, DefaultRefreshText))
    IN  max(MinRefreshInterval, IF IsSome(parsed) THEN Get(parsed) ELSE DefaultRefreshInterval)

Text10 == <<"1", "0">>
Text90 == <<"9", "0">>
TextAbc == <<"a", "b", "c">>

\* values PATCH /preferences/refresh_interval is called with
PrefInputs == { Text10 }

\* texts of up to n characters
RECURSIVE TextsUpTo(_, _)
TextsUpTo(chars, n) ==
    IF n = 0 THEN { <<>> }
    ELSE LET shorter == TextsUpTo(chars, n - 1)
         IN  shorter \cup { Append(t, c) : t \in shorter, c \in chars }

\* longest preference text enumerated exhaustively
MaxPrefLen == 3
PrefChars == {"0", "1", "6", "9", "-", " ", "a"}
PrefTexts == TextsUpTo(PrefChars, MaxPrefLen) \cup { Text10, Text90, TextAbc, DefaultRefreshText }

\* WeatherService.update_preference: UPDATE ... WHERE key = ?, no row is created
update_preference_row(row, value) == IF IsSome(row) THEN Some(Some(value)) ELSE row

(***************************************************************************)
(* Store queries.                                                          *)
(***************************************************************************)
get_location_ignoring_deleted(locs, id) ==
    IF id \in 1 .. Len(locs) THEN Some(id) ELSE None

\* WeatherService.get_location: the row, unless absent or soft-deleted
get_location(locs, id) ==
    IF id \in 1 .. Len(locs) /\ ~locs[id].is_deleted THEN Some(id) ELSE None

\* ORDER BY name ASC over the two known names
NameRank(name) == IF name = "London" THEN 1 ELSE 2

RECURSIVE OrderByName(_, _)
OrderByName(locs, ids) ==
    IF ids = {} THEN <<>>
    ELSE LET first == CHOOSE i \in ids :
                          \A j \in ids : NameRank(locs[i].name) <= NameRank(locs[j].name)
         IN  <<first>> \o OrderByName(locs, ids \ {first})

\* WeatherService.get_all_locations: ids of the active rows, ordered by name
get_all_locations(locs) ==
    OrderByName(locs, { i \in 1 .. Len(locs) : ~locs[i].is_deleted })

\* SELECT ... WHERE name = ? AND country = ? LIMIT 1 (add_location)
find_location(locs, name) ==
    IF \E i \in 1 .. Len(locs) : locs[i].name = name
    THEN Some(CHOOSE i \in 1 .. Len(locs) : locs[i].name = name)
    ELSE None

\* ORDER BY timestamp DESC: position of the row that comes first.  The column
\* holds whole seconds; rows of one second come in ascending or in descending
\* rowid order, as the query plan has it (tie)
FirstByTimeDesc(rows, tie) ==
    CHOOSE i \in 1 .. Len(rows) :
        /\ \A j \in 1 .. Len(rows) : Get(rows[j].timestamp) <= Get(rows[i].timestamp)
        /\ \A j \in 1 .. Len(rows) :
               Get(rows[j].timestamp) = Get(rows[i].timestamp) =>
                   IF tie = "rowid_asc" THEN i <= j ELSE j <= i

RECURSIVE OrderByTimeDesc(_, _)
OrderByTimeDesc(rows, tie) ==
    IF rows = <<>> THEN <<>>
    ELSE LET k == FirstByTimeDesc(rows, tie)
         IN  <<rows[k]>> \o
             OrderByTimeDesc(SubSeq(rows, 1, k - 1) \o SubSeq(rows, k + 1, Len(rows)), tie)

\* WeatherService.get_latest_weather
get_latest_weather(rows, tie) ==
    IF rows = <<>> THEN None ELSE Some(rows[FirstByTimeDesc(rows, tie)])

SecondsPerDay == 86400

\* WeatherService._get_weather_history_from_db
get_weather_history_from_db(rows, days, clock, tie) ==
    OrderByTimeDesc(
        SelectSeq(rows, LAMBDA r : Get(r.timestamp) >= clock - days * SecondsPerDay), tie)

\* the rows of a list, ascending by forecast_timestamp (insertion order on ties)
RECURSIVE OrderByForecastTime(_)
OrderByForecastTime(rows) ==
    IF rows = <<>> THEN <<>>
    ELSE LET k == CHOOSE i \in 1 .. Len(rows) :
                      /\ \A j \in 1 .. Len(rows) :
                             rows[i].forecast_timestamp <= rows[j].forecast_timestamp
                      /\ \A j \in 1 .. i - 1 :
                             rows[j].forecast_timestamp # rows[i].forecast_timestamp
         IN  <<rows[k]>> \o
             OrderByForecastTime(SubSeq(rows, 1, k - 1) \o SubSeq(rows, k + 1, Len(rows)))

\* WeatherService.get_forecast
get_forecast(rows) == OrderByForecastTime(rows)

SuccessRows(rows) == { i \in 1 .. Len(rows) : rows[i].status = "success" }

\* WeatherService.get_last_sync_time: synced_at of the latest success record
get_last_sync_time(rows) ==
    IF SuccessRows(rows) = {} THEN None
    ELSE Some(rows[CHOOSE i \in SuccessRows(rows) :
                     \A j \in SuccessRows(rows) : rows[j].synced_at <= rows[i].synced_at].synced_at)

\* a sync_history row
SyncRecord(status, message, at) ==
    [status |-> status, error_message |-> message, synced_at |-> at]

\* WeatherService.get_last_sync_note: the message of the success record that
\* ORDER BY synced_at DESC LIMIT 1 gives, rows of one second in the order tie
get_last_sync_note(rows, tie) ==
    IF SuccessRows(rows) = {} THEN NULL
    ELSE rows[CHOOSE i \in SuccessRows(rows) :
                 \A j \in SuccessRows(rows) :
                     /\ rows[j].synced_at <= rows[i].synced_at
                     /\ rows[j].synced_at = rows[i].synced_at =>
                            IF tie = "rowid_asc" THEN i <= j ELSE j <= i].error_message

(***************************************************************************)
(* Conflict detection.                                                     *)
(***************************************************************************)
\* str.lower() on the condition categories of the provider
lower(s) ==
    CASE s = "Clear" -> "clear"
      [] s = "Rain" -> "rain"
      [] s = "Clouds" -> "clouds"
      [] s = "Drizzle" -> "drizzle"
      [] s \in {"Thunderstorm", "THUNDERSTORM"} -> "thunderstorm"
      [] s \in {"Squall", "SQUALL"} -> "squall"
      [] s \in {"Tornado", "TORNADO"} -> "tornado"
      [] OTHER -> s

abs(x) == IF x < 0 THEN 0 - x ELSE x

ConflictText ==
    "Significant data shift detected; latest API response applied as source of truth."
CachedText == "Used cached weather data to reduce API calls."

ShiftThreshold == 10

detect_conflict_note_case_sensitive(previous_current, next_current) ==
    IF ~IsSome(previous_current) THEN NULL
    ELSE LET prev == Get(previous_current)
             temp_delta == abs(next_current.temperature - prev.temperature)
             wind_delta == abs(next_current.wind_speed - prev.wind_speed)
             weather_changed == next_current.weather_main # prev.weather_main
         IN  IF temp_delta >= ShiftThreshold \/ wind_delta >= ShiftThreshold \/ weather_changed
             THEN ConflictText ELSE NULL

\* WeatherService._detect_conflict_note
detect_conflict_note(previous_current, next_current) ==
    IF ~IsSome(previous_current) THEN NULL
    ELSE LET prev == Get(previous_current)
             temp_delta == abs(next_current.temperature - prev.temperature)
             wind_delta == abs(next_current.wind_speed - prev.wind_speed)
             weather_changed == lower(next_current.weather_main) # lower(prev.weather_main)
         IN  IF temp_delta >= ShiftThreshold \/ wind_delta >= ShiftThreshold \/ weather_changed
             THEN ConflictText ELSE NULL

(***************************************************************************)
(* sync_weather, piece by piece.                                           *)
(***************************************************************************)
is_cache_fresh_inclusive(force, last_sync, clock, cache_age_seconds) ==
    /\ ~force
    /\ IsSome(last_sync)
    /\ clock - Get(last_sync) <= cache_age_seconds

\* sync_weather, is_cache_fresh
is_cache_fresh(force, last_sync, clock, cache_age_seconds) ==
    /\ ~force
    /\ IsSome(last_sync)
    /\ clock - Get(last_sync) < cache_age_seconds

\* The persistence block runs statement by statement: 1 the snapshot insert,
\* 2 the forecast delete, 3 .. n+2 the forecast inserts, n+3 the success record.
\* fail_at is the statement that raises, 0 when none does.
FailPoints(forecast) == 0 .. Len(forecast) + 3

Ran(fail_at, statement) == fail_at = 0 \/ fail_at > statement

snapshots_after(rows, current, fail_at, clock) ==
    IF Ran(fail_at, 1) THEN Append(rows, [current EXCEPT !.timestamp = Some(clock)])
    ELSE rows

forecast_after_merge(rows, forecast, fail_at) ==
    IF ~Ran(fail_at, 2) THEN rows
    ELSE rows \o SubSeq(forecast, 1, IF fail_at = 0 THEN Len(forecast) ELSE fail_at - 3)

\* DELETE FROM forecasts WHERE location_id = ?, then one INSERT per item
forecast_after(rows, forecast, fail_at) ==
    IF ~Ran(fail_at, 2) THEN rows
    ELSE SubSeq(forecast, 1, IF fail_at = 0 THEN Len(forecast) ELSE fail_at - 3)

failure_record_dropped(rows, message, clock) == rows

failure_record_twice(rows, message, clock) ==
    Append(Append(rows, SyncRecord("failed", message, clock)),
           SyncRecord("failed", message, clock))

\* the except block: INSERT INTO sync_history (..., 'failed', str(e)), commit
failure_record(rows, message, clock) == Append(rows, SyncRecord("failed", message, clock))

success_record_replacing_last(rows, sync_note, clock) ==
    IF rows = <<>> THEN <<SyncRecord("success", sync_note, clock)>>
    ELSE [rows EXCEPT ![Len(rows)] = SyncRecord("success", sync_note, clock)]

\* INSERT INTO sync_history (..., 'success', sync_note)
success_record(rows, sync_note, clock) == Append(rows, SyncRecord("success", sync_note, clock))

(***************************************************************************)
(* Coroutines and the outcomes of their calls.                             *)
(***************************************************************************)
IdleTask ==
    [pc |-> "idle", op |-> "none", location_id |-> 0, name |-> "", force |-> FALSE,
     previous_current |-> None, current |-> None, calls |-> 0, days |-> 0,
     lat |-> 0, lon |-> 0]

NoResult ==
    [call |-> "none", status |-> "none", location_id |-> 0, force |-> FALSE,
     path |-> "none", previous_current |-> None, current |-> None, forecast |-> <<>>,
     note |-> NULL, error |-> NULL, calls |-> 0, rows |-> <<>>, source |-> "none",
     prefer_api |-> FALSE, provider |-> "none", provider_rows |-> <<>>]

\* nothing ended in the last step
NoEnded == [task |-> "none", result |-> NoResult, pass |-> None]

SyncResult(l, force, status, path) ==
    [NoResult EXCEPT !.call = "sync_weather", !.location_id = l, !.force = force,
                     !.status = status, !.path = path]

\* a coroutine suspended in sync_weather on get_current_weather
SuspendedSync(op, l, force, previous_current) ==
    [IdleTask EXCEPT !.pc = "get_current_weather", !.op = op, !.location_id = l,
                     !.force = force, !.previous_current = previous_current, !.calls = 1]

Bump(f, l) == [f EXCEPT ![l] = @ + 1]

RECURSIVE BumpAll(_, _)
BumpAll(f, ls) == IF ls = <<>> THEN f ELSE BumpAll(Bump(f, Head(ls)), Tail(ls))

(***************************************************************************)
(* The background refresh loop.                                            *)
(***************************************************************************)
\* str(None), the text int() is given for a NULL value
TextNone == <<"N", "o", "n", "e">>

\* the interval without the floor of 60
loop_refresh_interval_unfloored(row) ==
    IF ~IsSome(row) THEN DefaultRefreshInterval
    ELSE LET parsed == int(IF IsSome(Get(row)) THEN Get(Get(row)) ELSE TextNone)
         IN  IF IsSome(parsed) THEN Get(parsed) ELSE DefaultRefreshInterval

\* periodic_sync_loop: refresh_interval from get_preferences()
loop_refresh_interval(row) ==
    IF ~IsSome(row) THEN DefaultRefreshInterval
    ELSE LET parsed == int(IF IsSome(Get(row)) THEN Get(Get(row)) ELSE TextNone)
         IN  IF IsSome(parsed) THEN max(MinRefreshInterval, Get(parsed))
             ELSE DefaultRefreshInterval

loop_remaining_abort(queue, raised) == IF raised THEN <<>> ELSE queue

\* for location in locations: try sync_weather except Exception: continue
loop_remaining(queue, raised) == queue

\* the leading locations of the queue that are no longer active: sync_weather
\* raises ValueError for each before suspending, and the loop continues
RECURSIVE Rejected(_, _)
Rejected(locs, queue) ==
    IF queue # <<>> /\ ~IsSome(get_location(locs, Head(queue)))
    THEN <<Head(queue)>> \o Rejected(locs, Tail(queue))
    ELSE <<>>

\* The loop calls sync_weather(force=True) for the locations of queue, one after
\* the other, until one call suspends on the provider or the queue is empty
\* (then: finally, close, sleep).  snaps is the snapshot table at that moment;
\* ended counts the sync_weather calls that have ended.
LoopRun(lp, queue, snaps, count) ==
    LET rejected == Rejected(locations, queue)
        rest == SubSeq(queue, Len(rejected) + 1, Len(queue))
    IN  /\ attempts' = BumpAll(count, rejected)
        /\ IF rest = <<>>
           THEN /\ tasks' = [tasks EXCEPT !["bg"] = IdleTask]
                /\ loop' = [lp EXCEPT !.pc = "sleep", !.queue = <<>>,
                                      !.pass_locations = <<>>, !.synced = <<>>,
                                      !.wake_at = now + lp.refresh_interval]
           ELSE /\ tasks' = [tasks EXCEPT !["bg"] =
                                SuspendedSync("loop", Head(rest), TRUE,
                                    get_latest_weather(snaps[Head(rest)], tie_break))]
                /\ loop' = [lp EXCEPT !.pc = "pass", !.queue = Tail(rest),
                                      !.synced = lp.synced \o rejected \o <<Head(rest)>>]

\* what LoopRun reports when it ends the pass: the locations read at the start
\* of the pass and those sync_weather was called for
PassEnded(lp, queue) ==
    IF Len(Rejected(locations, queue)) = Len(queue)
    THEN Some([locations |-> lp.pass_locations,
               synced |-> lp.synced \o Rejected(locations, queue)])
    ELSE None

\* a sync_weather call of coroutine t ends with outcome res and the tables given
EndSync(t, res, raised, snaps, fcs, hist) ==
    LET l == res.location_id
    IN  /\ weather_snapshots' = snaps
        /\ forecasts' = fcs
        /\ sync_history' = hist
        /\ ended' = [task |-> t, result |-> res,
                      pass |-> IF tasks[t].op = "loop"
                               THEN PassEnded(loop, loop_remaining(loop.queue, raised))
                               ELSE None]
        /\ refreshes' = IF res.path = "refresh" THEN Bump(refreshes, l) ELSE refreshes
        /\ IF tasks[t].op = "loop"
           THEN LoopRun(loop, loop_remaining(loop.queue, raised), snaps, Bump(attempts, l))
           ELSE /\ attempts' = Bump(attempts, l)
                /\ tasks' = [tasks EXCEPT ![t] = IdleTask]
                /\ UNCHANGED loop

(***************************************************************************)
(* Actions.                                                                *)
(***************************************************************************)
\* sync_weather from its entry to its first suspension or its return, for the
\* coroutine t of a request or of add_location; locs is the locations table
EnterSync(t, op, l, force, locs) ==
    LET last_sync == get_last_sync_time(sync_history[l])
        cache_age_seconds == sync_cache_age_seconds(user_preferences)
        current_cached == get_latest_weather(weather_snapshots[l], tie_break)
        forecast_cached == get_forecast(forecasts[l])
    IN  IF ~IsSome(get_location(locs, l))
        THEN EndSync(t, SyncResult(l, force, "NotFound", "none"), TRUE,
                     weather_snapshots, forecasts, sync_history)
        ELSE IF /\ is_cache_fresh(force, last_sync, now, cache_age_seconds)
                /\ IsSome(current_cached)
                /\ forecast_cached # <<>>
        THEN EndSync(t, [SyncResult(l, force, "returned", "cache") EXCEPT
                            !.current = current_cached,
                            !.forecast = forecast_cached,
                            !.note = CachedText],
                     FALSE, weather_snapshots, forecasts, sync_history)
        ELSE /\ tasks' = [tasks EXCEPT ![t] =
                             SuspendedSync(op, l, force,
                                 get_latest_weather(weather_snapshots[l], tie_break))]
             /\ ended' = NoEnded
             /\ UNCHANGED <<weather_snapshots, forecasts, sync_history, attempts,
                            refreshes, loop>>

\* POST /locations/{id}/sync: a request calls sync_weather(location_id, force)
SyncStart(t, l, force) ==
    /\ tasks[t].pc = "idle"
    /\ ops < MaxOps
    /\ ops' = ops + 1
    /\ EnterSync(t, "sync", l, force, locations)
    /\ UNCHANGED <<locations, user_preferences, now, faults, tie_break, insight,
                   rate_limit_buckets, requests>>

\* the except block of sync_weather: a failed record, commit, re-raise
FailSync(t, message, calls, snaps, fcs) ==
    /\ faults < MaxFaults
    /\ faults' = faults + 1
    /\ EndSync(t, [SyncResult(tasks[t].location_id, tasks[t].force, "raised", "refresh")
                      EXCEPT !.error = message, !.calls = calls,
                             !.previous_current = tasks[t].previous_current],
               TRUE, snaps, fcs,
               [sync_history EXCEPT ![tasks[t].location_id] =
                   failure_record(@, message, now)])

\* await get_current_weather returns or raises
CurrentFetched(t) ==
    /\ tasks[t].pc = "get_current_weather"
    /\ \/ \E current \in ProviderCurrent :
             /\ tasks' = [tasks EXCEPT ![t].pc = "get_forecast",
                                       ![t].current = Some(current),
                                       ![t].calls = @ + 1]
             /\ ended' = NoEnded
             /\ UNCHANGED <<weather_snapshots, forecasts, sync_history,
                            attempts, refreshes, loop, faults>>
       \/ FailSync(t, ProviderErrorText, tasks[t].calls, weather_snapshots, forecasts)
    /\ UNCHANGED <<locations, user_preferences, now, ops, tie_break, insight,
                   rate_limit_buckets, requests>>

\* await get_forecast returns or raises; on return the persistence block runs to
\* its commit, or to the statement that raises and then through the except block
ForecastFetched(t) ==
    /\ tasks[t].pc = "get_forecast"
    /\ LET l == tasks[t].location_id
           current == Get(tasks[t].current)
           sync_note == detect_conflict_note(tasks[t].previous_current, current)
       IN  \/ FailSync(t, ProviderErrorText, tasks[t].calls, weather_snapshots, forecasts)
           \/ \E forecast \in ProviderForecast :
                 \E fail_at \in FailPoints(forecast) \ {0} :
                    FailSync(t, StoreErrorText, tasks[t].calls,
                        [weather_snapshots EXCEPT ![l] = snapshots_after(@, current, fail_at, now)],
                        [forecasts EXCEPT ![l] = forecast_after(@, forecast, fail_at)])
           \/ \E forecast \in ProviderForecast :
                 /\ UNCHANGED faults
                 /\ EndSync(t, [SyncResult(l, tasks[t].force, "returned", "refresh") EXCEPT
                                   !.current = Some(current),
                                   !.forecast = forecast,
                                   !.note = sync_note,
                                   !.calls = tasks[t].calls,
                                   !.previous_current = tasks[t].previous_current],
                            FALSE,
                            [weather_snapshots EXCEPT ![l] =
                                snapshots_after(@, current, 0, now)],
                            [forecasts EXCEPT ![l] = forecast_after(@, forecast, 0)],
                            [sync_history EXCEPT ![l] = success_record(@, sync_note, now)])
    /\ UNCHANGED <<locations, user_preferences, now, ops, tie_break, insight,
                   rate_limit_buckets, requests>>

\* POST /locations: add_location awaits the geocoder, whose answer is on its way
AddStart(t, name, answer) ==
    /\ tasks[t].pc = "idle"
    /\ ops < MaxOps
    /\ ops' = ops + 1
    /\ tasks' = [tasks EXCEPT ![t] = [IdleTask EXCEPT !.pc = "geocode", !.op = "add",
                                                      !.name = name, !.lat = answer.lat,
                                                      !.lon = answer.lon]]
    /\ ended' = NoEnded
    /\ UNCHANGED <<locations, weather_snapshots, forecasts, sync_history,
                   user_preferences, now, loop, attempts, refreshes, faults, tie_break, insight,
                   rate_limit_buckets, requests>>

\* a locations row as add_location inserts it: display_name is the name, and
\* is_favorite, which the INSERT leaves to the column default, is 0
Location(name, lat, lon, is_deleted) ==
    [name |-> name, latitude |-> lat, longitude |-> lon, display_name |-> name,
     is_favorite |-> FALSE, is_deleted |-> is_deleted]

upsert_location_reviving_deleted_only(locs, name, lat, lon) ==
    IF \E i \in 1 .. Len(locs) : locs[i].name = name /\ locs[i].is_deleted
    THEN LET i == CHOOSE i \in 1 .. Len(locs) : locs[i].name = name /\ locs[i].is_deleted
         IN  [locs EXCEPT ![i] = Location(name, lat, lon, FALSE)]
    ELSE Append(locs, Location(name, lat, lon, FALSE))

\* add_location, steps 2 and 3: the row of that name gets the new coordinates
\* and is_deleted = 0, or a row is inserted
upsert_location(locs, name, lat, lon) ==
    LET existing == find_location(locs, name)
    IN  IF IsSome(existing)
        THEN [locs EXCEPT ![Get(existing)].latitude = lat,
                          ![Get(existing)].longitude = lon,
                          ![Get(existing)].display_name = name,
                          ![Get(existing)].is_deleted = FALSE]
        ELSE Append(locs, Location(name, lat, lon, FALSE))

\* the geocoder answers: an error or no match ends add_location; a match is
\* stored and add_location goes on into sync_weather(location.id, force=True)
Geocoded(t) ==
    /\ tasks[t].pc = "geocode"
    /\ \/ /\ tasks' = [tasks EXCEPT ![t] = IdleTask]
          /\ ended' = NoEnded
          /\ UNCHANGED <<locations, weather_snapshots, forecasts, sync_history,
                         attempts, refreshes, loop>>
       \/ LET locs == upsert_location(locations, tasks[t].name, tasks[t].lat, tasks[t].lon)
          IN  /\ locations' = locs
              /\ EnterSync(t, "add", Get(find_location(locs, tasks[t].name)), TRUE, locs)
    /\ UNCHANGED <<user_preferences, now, ops, faults, tie_break, insight,
                   rate_limit_buckets, requests>>

\* a delete that sets the deleted flag and leaves the favorite flag
delete_location_keeping_favorite(locs, id) ==
    IF IsSome(get_location(locs, id))
    THEN [locations |-> [locs EXCEPT ![id].is_deleted = TRUE], returned |-> TRUE]
    ELSE [locations |-> locs, returned |-> FALSE]

\* WeatherService.delete_location: the UPDATE of the row that is not deleted,
\* and rowcount > 0
delete_location(locs, id) ==
    IF IsSome(get_location(locs, id))
    THEN [locations |-> [locs EXCEPT ![id].is_deleted = TRUE, ![id].is_favorite = FALSE],
          returned |-> TRUE]
    ELSE [locations |-> locs, returned |-> FALSE]

\* DELETE /locations/{id} of an active location: delete_location
DeleteLocation(l) ==
    /\ delete_location(locations, l).returned
    /\ locations' = delete_location(locations, l).locations
    /\ ended' = NoEnded
    /\ UNCHANGED <<weather_snapshots, forecasts, sync_history, user_preferences, now,
                   tasks, loop, attempts, refreshes, ops, faults, tie_break, insight,
                   rate_limit_buckets, requests>>

\* what a location request returned: 404 when the service returned nothing
LocationResult(call, l, found) ==
    [NoResult EXCEPT !.call = call, !.location_id = l,
                     !.status = IF found THEN "returned" ELSE "not_found"]

\* DELETE /locations/{id} of any id, with its answer
DeleteLocationCall(l) ==
    /\ locations' = delete_location(locations, l).locations
    /\ ended' = [NoEnded EXCEPT !.task = "r1",
                                !.result = LocationResult("delete_location", l,
                                               delete_location(locations, l).returned)]
    /\ UNCHANGED <<weather_snapshots, forecasts, sync_history, user_preferences, now,
                   tasks, loop, attempts, refreshes, ops, faults, tie_break, insight,
                   rate_limit_buckets, requests>>

\* a LocationUpdate: each field given or left out
LocationUpdate(display_name, is_favorite) ==
    [display_name |-> display_name, is_favorite |-> is_favorite]

\* WeatherService.update_location: the row after the UPDATE ... WHERE id = ?
\* AND is_deleted = 0, and the location read back
update_location(locs, id, update_data) ==
    LET existing == get_location(locs, id)
        named == IF IsSome(update_data.display_name)
                 THEN [locs EXCEPT ![id].display_name = Get(update_data.display_name)]
                 ELSE locs
        updated == IF IsSome(update_data.is_favorite)
                   THEN [named EXCEPT ![id].is_favorite = Get(update_data.is_favorite)]
                   ELSE named
    IN  [locations |-> IF IsSome(existing) THEN updated ELSE locs,
         returned |-> existing]

\* PATCH /locations/{id}
UpdateLocation(l, update_data) ==
    /\ locations' = update_location(locations, l, update_data).locations
    /\ ended' = [NoEnded EXCEPT !.task = "r1",
                                !.result = LocationResult("update_location", l,
                                    IsSome(update_location(locations, l, update_data).returned))]
    /\ UNCHANGED <<weather_snapshots, forecasts, sync_history, user_preferences, now,
                   tasks, loop, attempts, refreshes, ops, faults, tie_break, insight,
                   rate_limit_buckets, requests>>

\* PATCH /preferences/refresh_interval: update_preference
UpdatePreference(value) ==
    /\ user_preferences' = update_preference_row(user_preferences, value)
    /\ ended' = NoEnded
    /\ UNCHANGED <<locations, weather_snapshots, forecasts, sync_history, now,
                   tasks, loop, attempts, refreshes, ops, faults, tie_break, insight,
                   rate_limit_buckets, requests>>

HistoryResult(l, prefer_api, provider, provider_rows, source, rows) ==
    [NoResult EXCEPT !.call = "get_weather_history", !.status = "returned",
                     !.location_id = l, !.prefer_api = prefer_api,
                     !.provider = provider, !.provider_rows = provider_rows,
                     !.source = source, !.rows = rows]

\* days of history a request asks for
Days == {5}

\* get_weather_history up to its await, or to its return from the local store
HistoryStart(t, l, days, prefer_api) ==
    /\ tasks[t].pc = "idle"
    /\ ops < MaxOps
    /\ ops' = ops + 1
    /\ IF prefer_api /\ IsSome(get_location(locations, l))
       THEN /\ tasks' = [tasks EXCEPT ![t] =
                            [IdleTask EXCEPT !.pc = "get_historical_weather",
                                             !.op = "history", !.location_id = l,
                                             !.days = days, !.calls = 1]]
            /\ ended' = NoEnded
       ELSE /\ ended' = [NoEnded EXCEPT !.task = t, !.result =
                             HistoryResult(l, prefer_api, "none", <<>>, "local",
                                 get_weather_history_from_db(weather_snapshots[l], days,
                                                             now, tie_break))]
            /\ UNCHANGED tasks
    /\ UNCHANGED <<locations, weather_snapshots, forecasts, sync_history,
                   user_preferences, now, loop, attempts, refreshes, faults, tie_break, insight,
                   rate_limit_buckets, requests>>

history_raises(l, provider, provider_rows, local) ==
    IF provider = "rows" /\ provider_rows # <<>>
    THEN HistoryResult(l, TRUE, provider, provider_rows, "api", provider_rows)
    ELSE IF provider = "failed"
    THEN [HistoryResult(l, TRUE, provider, provider_rows, "none", <<>>) EXCEPT
             !.status = "raised", !.error = ProviderErrorText]
    ELSE HistoryResult(l, TRUE, provider, provider_rows, "local", local)

\* get_weather_history after its await: the provider's rows when there are any,
\* else (an exception, no rows) the snapshots of the local store
history_outcome(l, provider, provider_rows, local) ==
    IF provider = "rows" /\ provider_rows # <<>>
    THEN HistoryResult(l, TRUE, provider, provider_rows, "api", provider_rows)
    ELSE HistoryResult(l, TRUE, provider, provider_rows, "local", local)

\* await get_historical_weather returns or raises
HistoryFetched(t) ==
    /\ tasks[t].pc = "get_historical_weather"
    /\ LET l == tasks[t].location_id
           local == get_weather_history_from_db(weather_snapshots[l], tasks[t].days,
                                                now, tie_break)
       IN  \/ \E rows \in ProviderHistory :
                 ended' = [NoEnded EXCEPT !.task = t,
                                          !.result = history_outcome(l, "rows", rows, local)]
           \/ ended' = [NoEnded EXCEPT !.task = t,
                                       !.result = history_outcome(l, "failed", <<>>, local)]
    /\ tasks' = [tasks EXCEPT ![t] = IdleTask]
    /\ UNCHANGED <<locations, weather_snapshots, forecasts, sync_history,
                   user_preferences, now, loop, attempts, refreshes, ops, faults, tie_break, insight,
                   rate_limit_buckets, requests>>

\* periodic_sync_loop wakes up (an API key is configured): it reads the active
\* locations and the interval and syncs the locations in turn
LoopWake ==
    /\ loop.pc = "sleep"
    /\ now >= loop.wake_at
    /\ ops < MaxOps
    /\ ops' = ops + 1
    /\ LET lp == [loop EXCEPT !.pass_locations = get_all_locations(locations),
                              !.synced = <<>>,
                              !.refresh_interval = loop_refresh_interval(user_preferences)]
       IN  /\ LoopRun(lp, lp.pass_locations, weather_snapshots, attempts)
           /\ ended' = [NoEnded EXCEPT !.pass = PassEnded(lp, lp.pass_locations)]
    /\ UNCHANGED <<locations, weather_snapshots, forecasts, sync_history,
                   user_preferences, now, refreshes, faults, tie_break, insight,
                   rate_limit_buckets, requests>>

\* time passes
Tick ==
    /\ now < MaxTicks * TickSeconds
    /\ now' = now + TickSeconds
    /\ ended' = NoEnded
    /\ UNCHANGED <<locations, weather_snapshots, forecasts, sync_history,
                   user_preferences, tasks, loop, attempts, refreshes, ops, faults, tie_break, insight,
                   rate_limit_buckets, requests>>

(***************************************************************************)
(* The insight engine: build_weather_insights and its parts.  Fractions    *)
(* are integers in a fixed unit: pop in thousandths, temperatures and wind *)
(* speeds in tenths (of a degree, of a m/s), visibility in metres.         *)
(***************************************************************************)
\* no call of the insight engine yet
NoInsight == [call |-> "none"]

\* everything but the insight engine's last call
system == <<locations, weather_snapshots, forecasts, sync_history, user_preferences,
            now, tasks, loop, attempts, refreshes, ops, faults, ended, tie_break,
            rate_limit_buckets, requests>>

\* a ForecastItem, as far as the insight engine reads it
ForecastItem(ts, pop, wind_speed, temperature, weather_main, weather_description) ==
    [forecast_timestamp |-> ts, pop |-> pop, wind_speed |-> wind_speed,
     temperature |-> temperature, weather_main |-> weather_main,
     weather_description |-> weather_description]

min(a, b) == IF a <= b THEN a ELSE b

\* item.weather_main.lower() in {"thunderstorm", "squall", "tornado"}
is_severe(weather_main) == lower(weather_main) \in {"thunderstorm", "squall", "tornado"}

\* _build_confidence_item: score
confidence_score(item) ==
    LET after_pop == 82 - (IF item.pop >= 600 THEN 18 ELSE IF item.pop >= 300 THEN 9 ELSE 0)
        after_wind == after_pop - (IF item.wind_speed >= 120 THEN 14
                                   ELSE IF item.wind_speed >= 80 THEN 7 ELSE 0)
        after_main == after_wind - (IF is_severe(item.weather_main) THEN 18 ELSE 0)
    IN  max(35, min(95, after_main))

confidence_label_high_from_75(score) ==
    IF score >= 75 THEN "High" ELSE IF score >= 58 THEN "Medium" ELSE "Low"

\* _build_confidence_item: label
confidence_label(score) ==
    IF score >= 76 THEN "High" ELSE IF score >= 58 THEN "Medium" ELSE "Low"

\* the reason with the rain test overriding the wind test
confidence_reason_rain_over_wind(item) ==
    IF is_severe(item.weather_main) THEN "convective conditions expected"
    ELSE IF item.pop >= 600 THEN "rain risk is high"
    ELSE IF item.wind_speed >= 120 THEN "wind variability is high"
    ELSE "stable signals"

\* _build_confidence_item: reason, later tests overriding earlier ones
confidence_reason(item) ==
    IF is_severe(item.weather_main) THEN "convective conditions expected"
    ELSE IF item.wind_speed >= 120 THEN "wind variability is high"
    ELSE IF item.pop >= 600 THEN "rain risk is high"
    ELSE "stable signals"

\* WeatherService._build_confidence_item
build_confidence_item(item) ==
    [label |-> confidence_label(confidence_score(item)),
     score |-> confidence_score(item),
     reason |-> confidence_reason(item)]

\* items on both sides of every threshold of the confidence score
ConfidenceItems ==
    { ForecastItem(100, pop, wind_speed, 150, weather_main, "")
        : pop \in {0, 299, 300, 599, 600, 1000},
          wind_speed \in {0, 79, 80, 119, 120, 1000},
          weather_main \in {"Clear", "Rain", "Thunderstorm", "squall", "TORNADO"} }

\* a call of _build_confidence_item, the only call of the behaviour
BuildConfidenceItem(item) ==
    /\ insight = NoInsight
    /\ insight' = [call |-> "_build_confidence_item", item |-> item,
                   result |-> build_confidence_item(item)]
    /\ UNCHANGED system

\* a WeatherSnapshot, as far as the insight engine reads it
Weather(temperature, wind_speed, visibility, weather_main, weather_description) ==
    [temperature |-> temperature, wind_speed |-> wind_speed, visibility |-> visibility,
     weather_main |-> weather_main, weather_description |-> weather_description]

\* forecast[:n]
Take(items, n) == SubSeq(items, 1, min(n, Len(items)))

RECURSIVE Sum(_)
Sum(numbers) == IF numbers = <<>> THEN 0 ELSE Head(numbers) + Sum(Tail(numbers))

\* the quotient cut downwards instead, as math.floor would
int_floor(numerator, denominator) == numerator \div denominator

\* int(numerator / denominator) for a positive denominator: towards zero
int_of(numerator, denominator) ==
    IF numerator >= 0 THEN numerator \div denominator
    ELSE 0 - ((0 - numerator) \div denominator)

clamp_score_above_only(score) == min(100, score)

\* max(0, min(100, score))
clamp_score(score) == max(0, min(100, score))

\* WeatherService._build_impact_scores; averages are kept as fractions:
\* avg_pop = pops / (1000 * n), avg_wind = winds / (10 * n),
\* avg_temp = temp_num / temp_den
build_impact_scores(current, forecast) ==
    LET window == Take(forecast, 8)
        n == Len(window)
        pops == Sum([i \in 1 .. n |-> window[i].pop])
        winds == Sum([i \in 1 .. n |-> window[i].wind_speed])
        temp_num == IF n > 0 /\ ~IsSome(current)
                    THEN Sum([i \in 1 .. n |-> window[i].temperature])
                    ELSE IF IsSome(current) THEN Get(current).temperature ELSE 200
        temp_den == IF n > 0 /\ ~IsSome(current) THEN 10 * n ELSE 10
        pop_part(weight) == IF n = 0 THEN 0 ELSE int_of(pops * weight, 1000 * n)
        \* int(min(avg_wind, cap) * tenths / 10)
        wind_part(cap, tenths) ==
            IF n = 0 THEN 0
            ELSE IF winds <= cap * 10 * n THEN int_of(winds * tenths, 100 * n)
            ELSE int_of(cap * tenths, 10)
        hot == temp_num > 32 * temp_den
        freezing == ~hot /\ temp_num < 0
        commute == 100 - pop_part(45) - wind_part(20, 12) - (IF freezing THEN 10 ELSE 0)
        outdoor == 100 - pop_part(55) - wind_part(18, 11) - (IF hot THEN 12 ELSE 0)
        laundry == 100 - pop_part(70) - (IF temp_num < 6 * temp_den THEN 20 ELSE 0)
        running == 100 - pop_part(40) - wind_part(15, 14)
                       - (IF hot THEN 18 ELSE IF freezing THEN 22 ELSE 0)
    IN  [commute |-> clamp_score(commute), outdoor |-> clamp_score(outdoor),
         laundry |-> clamp_score(laundry), running |-> clamp_score(running)]

\* items with ordinary, extreme and out-of-range readings
ImpactItems ==
    { ForecastItem(100, pop, wind_speed, temperature, "Rain", "")
        : pop \in {-1000, 0, 500, 1000, 3000},
          wind_speed \in {0, 100, 1000},
          temperature \in {-1000, 50, 330, 1000} }

\* forecasts of up to two of them, and one of nine items whose last is extreme
ImpactForecasts ==
    { <<>> } \cup { <<a>> : a \in ImpactItems }
             \cup { <<a, b>> : a \in ImpactItems, b \in ImpactItems }
             \cup { [i \in 1 .. 9 |-> IF i = 9 THEN ForecastItem(100, 3000, 1000, 1000, "Rain", "")
                                                ELSE ForecastItem(100, 0, 0, 200, "Clear", "")] }

ImpactCurrents ==
    { None } \cup { Some(Weather(temperature, 30, Some(10000), "Clear", "clear sky"))
                       : temperature \in {-1000, 50, 200, 1000} }

\* a call of _build_impact_scores, the only call of the behaviour
BuildImpactScores(current, forecast) ==
    /\ insight = NoInsight
    /\ insight' = [call |-> "_build_impact_scores", current |-> current,
                   forecast |-> forecast,
                   result |-> build_impact_scores(current, forecast)]
    /\ UNCHANGED system

\* one InsightTimelineEvent
TimelineEvent(timestamp, title, severity, detail) ==
    [timestamp |-> timestamp, title |-> title, severity |-> severity, detail |-> detail]

\* f"{tenths / 10:.1f}" for a reading in tenths
format_1f(tenths) ==
    (IF tenths < 0 THEN "-" ELSE "")
        \o ToString((IF tenths < 0 THEN 0 - tenths ELSE tenths) \div 10) \o "."
        \o ToString((IF tenths < 0 THEN 0 - tenths ELSE tenths) % 10)

\* _build_timeline_events: what one forecast item appends to events
events_of(item) ==
    (IF item.pop >= 600
     THEN <<TimelineEvent(item.forecast_timestamp, "Rain window",
                          IF item.pop >= 800 THEN "high" ELSE "medium",
                          ToString(int_of(item.pop * 100, 1000)) \o "% precip chance")>>
     ELSE <<>>)
    \o (IF item.wind_speed >= 120
        THEN <<TimelineEvent(item.forecast_timestamp, "Wind surge",
                             IF item.wind_speed >= 160 THEN "high" ELSE "medium",
                             format_1f(item.wind_speed) \o " m/s gust potential")>>
        ELSE <<>>)
    \o (IF is_severe(item.weather_main)
        THEN <<TimelineEvent(item.forecast_timestamp, "Severe convection", "high",
                             item.weather_description)>>
        ELSE <<>>)

\* _build_timeline_events: events after the loop over the items
RECURSIVE emitted_events(_)
emitted_events(items) ==
    IF items = <<>> THEN <<>>
    ELSE events_of(Head(items)) \o emitted_events(Tail(items))

RECURSIVE sorted_reversing_ties(_)
sorted_reversing_ties(events) ==
    IF events = <<>> THEN <<>>
    ELSE LET e == events[Len(events)]
             rest == sorted_reversing_ties(SubSeq(events, 1, Len(events) - 1))
         IN  SelectSeq(rest, LAMBDA r : r.timestamp < e.timestamp) \o <<e>>
                 \o SelectSeq(rest, LAMBDA r : r.timestamp >= e.timestamp)

\* sorted(events, key=lambda e: e.timestamp): Python's sort is stable
RECURSIVE sorted_by_timestamp(_)
sorted_by_timestamp(events) ==
    IF events = <<>> THEN <<>>
    ELSE LET e == events[Len(events)]
             rest == sorted_by_timestamp(SubSeq(events, 1, Len(events) - 1))
         IN  SelectSeq(rest, LAMBDA r : r.timestamp <= e.timestamp) \o <<e>>
                 \o SelectSeq(rest, LAMBDA r : r.timestamp > e.timestamp)

\* WeatherService._build_timeline_events
build_timeline_events(forecast) ==
    Take(sorted_by_timestamp(emitted_events(Take(forecast, 12))), 6)

\* what an item can carry: nothing, rain, wind or a storm alone, on both sides
\* of the severity thresholds, or all three
TimelineKinds ==
    { [pop |-> 0, wind_speed |-> 30, weather_main |-> "Clear"],
      [pop |-> 600, wind_speed |-> 30, weather_main |-> "Rain"],
      [pop |-> 855, wind_speed |-> 119, weather_main |-> "Rain"],
      [pop |-> 599, wind_speed |-> 120, weather_main |-> "Clouds"],
      [pop |-> 0, wind_speed |-> 160, weather_main |-> "Clear"],
      [pop |-> 0, wind_speed |-> 30, weather_main |-> "Squall"],
      [pop |-> 900, wind_speed |-> 175, weather_main |-> "Thunderstorm"] }

TimelineItem(ts, kind) ==
    ForecastItem(ts, kind.pop, kind.wind_speed, 150, kind.weather_main,
                 lower(kind.weather_main))

TimelineItems == { TimelineItem(ts, kind) : ts \in {100, 200}, kind \in TimelineKinds }

\* the first eleven items of a long forecast: all quiet; all stormy at one
\* timestamp; rain at timestamps that go down
TimelineFillers ==
    { [i \in 1 .. 11 |-> ForecastItem(150, 0, 30, 150, "Clear", "clear sky")],
      [i \in 1 .. 11 |-> ForecastItem(150, 900, 175, 150, "Thunderstorm", "storm")],
      [i \in 1 .. 11 |-> ForecastItem(300 - 10 * i, 700, 30, 150, "Rain", "rain")] }

\* forecasts of up to two items, and forecasts of thirteen: eleven fillers and
\* every choice of the twelfth and the thirteenth item
TimelineForecasts ==
    { <<>> } \cup { <<a>> : a \in TimelineItems }
             \cup { <<a, b>> : a \in TimelineItems, b \in TimelineItems }
             \cup { filler \o <<a, b>> :
                        filler \in TimelineFillers, a \in TimelineItems, b \in TimelineItems }

\* a call of _build_timeline_events, the only call of the behaviour
BuildTimelineEvents(forecast) ==
    /\ insight = NoInsight
    /\ insight' = [call |-> "_build_timeline_events", forecast |-> forecast,
                   result |-> build_timeline_events(forecast)]
    /\ UNCHANGED system

rain_spike_window_of_twelve(forecast) == Take(forecast, 12)

\* _build_alerts: forecast[:8], where rain spikes are looked for
rain_spike_window(forecast) == Take(forecast, 8)

\* WeatherService._build_alerts
build_alerts(current, forecast) ==
    LET rain_window == rain_spike_window(forecast)
        severe_window == Take(forecast, 12)
        a1 == IF IsSome(current) /\ IsSome(Get(current).visibility)
                  /\ Get(Get(current).visibility) < 2500
              THEN <<"Reduced visibility now. Drive with caution.">> ELSE <<>>
        a2 == IF IsSome(current) /\ Get(current).wind_speed >= 140
              THEN a1 \o <<"Strong winds in effect. Secure loose outdoor items.">> ELSE a1
        a3 == IF \E i \in 1 .. Len(rain_window) : rain_window[i].pop >= 700
              THEN a2 \o <<"Heavy rain risk in the next 24 hours.">> ELSE a2
        a4 == IF \E i \in 1 .. Len(severe_window) : is_severe(severe_window[i].weather_main)
              THEN a3 \o <<"Potential severe storm cells detected in forecast window.">>
              ELSE a3
    IN  Take(a4, 4)

\* no snapshot, and snapshots on both sides of the visibility and wind thresholds
AlertCurrents ==
    { None } \cup { Some(Weather(150, wind_speed, visibility, "Mist", "mist"))
                       : wind_speed \in {0, 139, 140},
                         visibility \in {None, Some(0), Some(2499), Some(2500), Some(10000)} }

AlertItems ==
    { ForecastItem(100, pop, 30, 150, weather_main, lower(weather_main))
        : pop \in {699, 700}, weather_main \in {"Clouds", "Tornado", "squall"} }

\* the empty forecast, forecasts of one item, and forecasts of thirteen items,
\* quiet but for one at position 8, 9, 12 or 13
AlertForecasts ==
    { <<>> } \cup { <<a>> : a \in AlertItems }
             \cup { [i \in 1 .. 13 |-> IF i = p THEN a
                                       ELSE ForecastItem(100, 0, 30, 150, "Clear", "clear sky")]
                        : p \in {8, 9, 12, 13}, a \in AlertItems }

\* a call of _build_alerts, the only call of the behaviour
BuildAlerts(current, forecast) ==
    /\ insight = NoInsight
    /\ insight' = [call |-> "_build_alerts", current |-> current, forecast |-> forecast,
                   result |-> build_alerts(current, forecast)]
    /\ UNCHANGED system

\* f"{tenths / 10:.0f}" for a non-negative reading in tenths: to the nearest
\* integer, a half to the even one
format_0f(tenths) ==
    LET whole == tenths \div 10
        rest == tenths % 10
    IN  ToString(IF rest > 5 \/ (rest = 5 /\ whole % 2 = 1) THEN whole + 1 ELSE whole)

\* max((item.pop for item in forecast[:8]), default=0.0)
RECURSIVE max_pop(_)
max_pop(items) ==
    IF items = <<>> THEN 0
    ELSE IF Len(items) = 1 THEN items[1].pop
    ELSE max(items[1].pop, max_pop(Tail(items)))

\* ", ".join(parts)
RECURSIVE join(_)
join(parts) ==
    IF parts = <<>> THEN ""
    ELSE IF Len(parts) = 1 THEN parts[1]
    ELSE parts[1] \o ", " \o join(Tail(parts))

prev_rain_as_after_rain(previous_current) == 400

\* _build_change_summary: prev_rain, in thousandths
prev_rain(previous_current) ==
    IF IsSome(previous_current)
           /\ lower(Get(previous_current).weather_main) \in {"rain", "drizzle", "thunderstorm"}
    THEN 400 ELSE 0

\* WeatherService._build_change_summary; the deltas are in tenths (of a degree,
\* of a percent, of a m/s), which is what round(x, 1) keeps
build_change_summary(previous_current, current, forecast) ==
    IF ~IsSome(current) THEN None
    ELSE
        LET prev_temp == IF IsSome(previous_current) THEN Get(previous_current).temperature
                         ELSE Get(current).temperature
            prev_wind == IF IsSome(previous_current) THEN Get(previous_current).wind_speed
                         ELSE Get(current).wind_speed
            next_rain == max_pop(Take(forecast, 8))
            temperature_delta == Get(current).temperature - prev_temp
            rain_delta == next_rain - prev_rain(previous_current)
            wind_delta == Get(current).wind_speed - prev_wind
            parts ==
                (IF abs(temperature_delta) >= 10
                 THEN <<"Temp " \o (IF temperature_delta > 0 THEN "up" ELSE "down") \o " "
                            \o format_1f(abs(temperature_delta)) \o " deg">>
                 ELSE <<>>)
                \o (IF abs(rain_delta) >= 100
                    THEN <<"rain risk " \o (IF rain_delta > 0 THEN "up" ELSE "down") \o " "
                               \o format_0f(abs(rain_delta)) \o "%">>
                    ELSE <<>>)
                \o (IF abs(wind_delta) >= 10
                    THEN <<"wind " \o (IF wind_delta > 0 THEN "up" ELSE "down") \o " "
                               \o format_1f(abs(wind_delta)) \o " m/s">>
                    ELSE <<>>)
        IN  Some([headline |-> IF parts # <<>> THEN join(parts)
                               ELSE "No major change since last sync.",
                  temperature_delta |-> temperature_delta,
                  rain_delta |-> rain_delta,
                  wind_delta |-> wind_delta])

\* no previous snapshot, and previous snapshots dry and rainy, near and far
ChangePrevious ==
    { None } \cup { Some(Weather(temperature, wind_speed, Some(10000), weather_main,
                                 lower(weather_main)))
                       : temperature \in {141, 150, 160}, wind_speed \in {30, 45},
                         weather_main \in {"Clear", "Drizzle"} }

ChangeCurrents ==
    { None } \cup { Some(Weather(temperature, wind_speed, Some(10000), "Clouds", "broken clouds"))
                       : temperature \in {150, -20}, wind_speed \in {30, 40} }

\* the empty forecast, one item on both sides of the rain threshold and of a
\* half percent, and nine dry items but for a wet ninth
ChangeForecasts ==
    { <<>> } \cup { <<ForecastItem(100, pop, 30, 150, "Rain", "light rain")>>
                       : pop \in {0, 99, 100, 345, 355, 700, 1000} }
             \cup { [i \in 1 .. 9 |-> ForecastItem(100, IF i = 9 THEN 900 ELSE 50, 30, 150,
                                                   "Clouds", "few clouds")] }

\* a call of _build_change_summary, the only call of the behaviour
BuildChangeSummary(previous_current, current, forecast) ==
    /\ insight = NoInsight
    /\ insight' = [call |-> "_build_change_summary", previous_current |-> previous_current,
                   current |-> current, forecast |-> forecast,
                   result |-> build_change_summary(previous_current, current, forecast)]
    /\ UNCHANGED system

\* WeatherService._build_briefing
build_briefing(current, forecast, alerts, impacts) ==
    IF ~IsSome(current) THEN "Sync weather to generate a personalized briefing."
    ELSE
        LET condition == IF Get(current).weather_description # ""
                         THEN Get(current).weather_description
                         ELSE Get(current).weather_main
            rain_peak == max_pop(Take(forecast, 8))
            summary == "Now " \o format_1f(Get(current).temperature) \o " deg with "
                           \o condition \o ". "
                           \o "Peak rain chance next 24h is "
                           \o ToString(int_of(rain_peak * 100, 1000)) \o "%. "
                           \o "Outdoor score " \o ToString(impacts.outdoor) \o "/100."
        IN  IF alerts # <<>> THEN summary \o " Priority alert: " \o alerts[1] ELSE summary

\* WeatherService._get_previous_latest_weather:
\* ORDER BY timestamp DESC LIMIT 1 OFFSET 1
get_previous_latest_weather(rows, tie) ==
    IF Len(rows) < 2 THEN None ELSE Some(OrderByTimeDesc(rows, tie)[2])

\* a stored snapshot row in the units of the insight engine; of a previous
\* snapshot it reads the temperature, the wind speed and the main condition
stored_weather(row) ==
    IF row = None THEN None
    ELSE Some(Weather(10 * Get(row).temperature, 10 * Get(row).wind_speed, None,
                      Get(row).weather_main, ""))

\* forecast[0:40:8]
daily_items(forecast) ==
    [k \in 1 .. (IF Len(forecast) >= 40 THEN 5 ELSE (Len(forecast) + 7) \div 8)
        |-> forecast[8 * (k - 1) + 1]]

no_data_or_no_current(current, forecast) == ~IsSome(current) \/ forecast = <<>>

\* build_weather_insights: not current and not forecast
no_data(current, forecast) == ~IsSome(current) /\ forecast = <<>>

\* WeatherService.build_weather_insights, reading the snapshot rows of the
\* location
build_weather_insights(rows, tie, current, forecast) ==
    IF no_data(current, forecast) THEN None
    ELSE
        LET daily == daily_items(forecast)
            impact_scores == build_impact_scores(current, forecast)
            alerts == build_alerts(current, forecast)
            previous_current == stored_weather(get_previous_latest_weather(rows, tie))
        IN  Some([briefing |-> build_briefing(current, forecast, alerts, impact_scores),
                  confidence |-> [k \in 1 .. Len(daily) |-> build_confidence_item(daily[k])],
                  impact_scores |-> impact_scores,
                  timeline |-> build_timeline_events(forecast),
                  alerts |-> alerts,
                  change_summary |-> build_change_summary(previous_current, current, forecast)])

\* no snapshot, a calm one with a description, a rough one without
InsightCurrents ==
    { None,
      Some(Weather(150, 30, Some(10000), "Clouds", "broken clouds")),
      Some(Weather(-25, 150, Some(2000), "Mist", "")) }

\* empty, one item, and nine items with a wet and stormy ninth
InsightForecasts ==
    { <<>> } \cup { <<ForecastItem(100, pop, wind_speed, 150, weather_main, lower(weather_main))>>
                       : pop \in {200, 556, 700}, wind_speed \in {30, 125},
                         weather_main \in {"Rain", "Thunderstorm"} }
             \cup { [i \in 1 .. 9 |-> IF i = 9
                                      THEN ForecastItem(900, 950, 30, 150, "Squall", "squalls")
                                      ELSE ForecastItem(100 * i, 290, 30, 150, "Clouds",
                                                        "few clouds")] }

\* a call of build_weather_insights, the only call of the behaviour: one
\* SELECT on weather_snapshots, no write
BuildWeatherInsights(location_id, current, forecast) ==
    /\ insight = NoInsight
    /\ insight' = [call |-> "build_weather_insights", location_id |-> location_id,
                   current |-> current, forecast |-> forecast,
                   result |-> build_weather_insights(weather_snapshots[location_id],
                                                     tie_break, current, forecast)]
    /\ UNCHANGED system

(***************************************************************************)
(* The rate limiter: rate_limit_middleware and its buckets.                *)
(***************************************************************************)

\* the quota, as configured by API_RATE_LIMIT_REQUESTS
RATE_LIMIT_REQUESTS == 2

\* the window in seconds, as configured by API_RATE_LIMIT_WINDOW_SECONDS
RATE_LIMIT_WINDOW_SECONDS == 2

\* the paths the middleware passes through uncounted
DocPaths == {"/docs", "/openapi.json", "/redoc"}

\* the paths requested in the model
Paths == {"/preferences", "/docs"}

\* request.client of the requests in the model: an address, or none
Clients == {Some("10.0.0.1"), None}

\* request.client.host if request.client else "unknown"
client_host(client) == IF IsSome(client) THEN Get(client) ELSE "unknown"

\* the keys of _rate_limit_buckets in the model
ClientHosts == {client_host(client) : client \in Clients}

\* a loop that pops the head also when it is exactly the window old
RECURSIVE evict_at_window_age(_, _)
evict_at_window_age(bucket, clock) ==
    IF bucket # <<>> /\ clock - Head(bucket) >= RATE_LIMIT_WINDOW_SECONDS
    THEN evict_at_window_age(Tail(bucket), clock)
    ELSE bucket

\* while bucket and now - bucket[0] > RATE_LIMIT_WINDOW_SECONDS: bucket.popleft()
RECURSIVE evict(_, _)
evict(bucket, clock) ==
    IF bucket # <<>> /\ clock - Head(bucket) > RATE_LIMIT_WINDOW_SECONDS
    THEN evict(Tail(bucket), clock)
    ELSE bucket

\* one answered request, as the log keeps it; status 200 stands for whatever
\* call_next returned
Answered(host, path, at, status, handled) ==
    [host |-> host, path |-> path, at |-> at, status |-> status, handled |-> handled]

\* the middleware on one request: the buckets it leaves and its answer
rate_limit_middleware(buckets, client, path, clock) ==
    IF path \in DocPaths
    THEN [buckets |-> buckets,
          answer |-> Answered(client_host(client), path, clock, 200, TRUE)]
    ELSE LET host == client_host(client)
             bucket == evict(buckets[host], clock)
         IN  IF Len(bucket) >= RATE_LIMIT_REQUESTS
             THEN [buckets |-> [buckets EXCEPT ![host] = bucket],
                   answer |-> Answered(host, path, clock, 429, FALSE)]
             ELSE [buckets |-> [buckets EXCEPT ![host] = Append(bucket, clock)],
                   answer |-> Answered(host, path, clock, 200, TRUE)]

\* a request arrives and the middleware answers it
RateLimitMiddleware(client, path) ==
    /\ Len(requests) < MaxRequests
    /\ LET r == rate_limit_middleware(rate_limit_buckets, client, path, now)
       IN  /\ rate_limit_buckets' = r.buckets
           /\ requests' = Append(requests, r.answer)
    /\ UNCHANGED <<locations, weather_snapshots, forecasts, sync_history,
                   user_preferences, now, tasks, loop, attempts, refreshes, ops,
                   faults, ended, tie_break, insight>>

\* a second passes on the clock time() reads
RateTick ==
    /\ now < MaxRateTime
    /\ now' = now + 1
    /\ UNCHANGED <<locations, weather_snapshots, forecasts, sync_history,
                   user_preferences, tasks, loop, attempts, refreshes, ops,
                   faults, ended, tie_break, insight, rate_limit_buckets, requests>>

(***************************************************************************)
(* The system.                                                             *)
(***************************************************************************)
\* The database file outlives the process.  The store at start is empty, or it
\* is the store an earlier run left after add_location("London") and its
\* automatic sync at time 0.
EmptyStore ==
    [locations |-> <<>>,
     weather_snapshots |-> [l \in LocIds |-> <<>>],
     forecasts |-> [l \in LocIds |-> <<>>],
     sync_history |-> [l \in LocIds |-> <<>>],
     attempts |-> [l \in LocIds |-> 0]]

UsedStore ==
    [locations |-> <<Location("London", KnownCoords("London").lat,
                              KnownCoords("London").lon, FALSE)>>,
     weather_snapshots |->
         [l \in LocIds |-> IF l = 1
                           THEN snapshots_after(<<>>, Snap(5, 3, "Clear"), 0, 0)
                           ELSE <<>>],
     forecasts |->
         [l \in LocIds |-> IF l = 1
                           THEN forecast_after(<<>>, <<Item(100, 20), Item(200, 70)>>, 0)
                           ELSE <<>>],
     sync_history |->
         [l \in LocIds |-> IF l = 1 THEN success_record(<<>>, NULL, 0) ELSE <<>>],
     attempts |-> [l \in LocIds |-> IF l = 1 THEN 1 ELSE 0]]

InitStore(s) ==
    /\ locations = s.locations
    /\ weather_snapshots = s.weather_snapshots
    /\ forecasts = s.forecasts
    /\ sync_history = s.sync_history
    /\ attempts = s.attempts
    /\ refreshes = s.attempts

Init ==
    /\ \E s \in {EmptyStore, UsedStore} : InitStore(s)
    /\ user_preferences = Some(Some(DefaultRefreshText))
    /\ now = 0
    /\ tasks = [t \in Tasks |-> IdleTask]
    /\ loop = [pc |-> "sleep", queue |-> <<>>, pass_locations |-> <<>>, synced |-> <<>>,
               refresh_interval |-> DefaultRefreshInterval, wake_at |-> 0]
    /\ ops = 0
    /\ faults = 0
    /\ ended = NoEnded
    /\ tie_break \in {"rowid_asc", "rowid_desc"}
    /\ insight = NoInsight
    /\ rate_limit_buckets = [h \in ClientHosts |-> <<>>]
    /\ requests = <<>>

Next ==
    \/ \E t \in Requests, l \in LocIds, force \in BOOLEAN : SyncStart(t, l, force)
    \/ \E t \in Tasks : CurrentFetched(t)
    \/ \E t \in Tasks : ForecastFetched(t)
    \/ \E t \in Requests, name \in Places : AddStart(t, name, KnownCoords(name))
    \/ \E t \in Requests : Geocoded(t)
    \/ \E l \in LocIds : DeleteLocation(l)
    \/ \E value \in PrefInputs : UpdatePreference(value)
    \/ \E t \in Requests, l \in LocIds, days \in Days, prefer_api \in BOOLEAN :
           HistoryStart(t, l, days, prefer_api)
    \/ \E t \in Requests : HistoryFetched(t)
    \/ LoopWake
    \/ Tick

Spec == Init /\ [][Next]_vars

\* Preferences alone: every stored state of the refresh_interval row, and
\* updates with every text
InitPref ==
    /\ InitStore(EmptyStore)
    /\ user_preferences \in { None, Some(None), Some(Some(DefaultRefreshText)) }
    /\ now = 0
    /\ tasks = [t \in Tasks |-> IdleTask]
    /\ loop = [pc |-> "sleep", queue |-> <<>>, pass_locations |-> <<>>, synced |-> <<>>,
               refresh_interval |-> DefaultRefreshInterval, wake_at |-> 0]
    /\ ops = 0
    /\ faults = 0
    /\ ended = NoEnded
    /\ tie_break = "rowid_asc"
    /\ insight = NoInsight
    /\ rate_limit_buckets = [h \in ClientHosts |-> <<>>]
    /\ requests = <<>>

\* The insight engine alone, on a store nothing else touches
InitInsight ==
    /\ InitStore(EmptyStore)
    /\ user_preferences = Some(Some(DefaultRefreshText))
    /\ now = 0
    /\ tasks = [t \in Tasks |-> IdleTask]
    /\ loop = [pc |-> "sleep", queue |-> <<>>, pass_locations |-> <<>>, synced |-> <<>>,
               refresh_interval |-> DefaultRefreshInterval, wake_at |-> 0]
    /\ ops = 0
    /\ faults = 0
    /\ ended = NoEnded
    /\ tie_break = "rowid_asc"
    /\ insight = NoInsight
    /\ rate_limit_buckets = [h \in ClientHosts |-> <<>>]
    /\ requests = <<>>

NextConfidence == \E item \in ConfidenceItems : BuildConfidenceItem(item)

SpecConfidence == InitInsight /\ [][NextConfidence]_vars

NextImpact ==
    \E current \in ImpactCurrents, forecast \in ImpactForecasts :
        BuildImpactScores(current, forecast)

SpecImpact == InitInsight /\ [][NextImpact]_vars

NextTimeline == \E forecast \in TimelineForecasts : BuildTimelineEvents(forecast)

SpecTimeline == InitInsight /\ [][NextTimeline]_vars

NextAlerts ==
    \E current \in AlertCurrents, forecast \in AlertForecasts : BuildAlerts(current, forecast)

SpecAlerts == InitInsight /\ [][NextAlerts]_vars

NextChange ==
    \E previous_current \in ChangePrevious, current \in ChangeCurrents,
       forecast \in ChangeForecasts :
        BuildChangeSummary(previous_current, current, forecast)

SpecChange == InitInsight /\ [][NextChange]_vars

\* the store after a second sync of London, a minute after the first
SyncedTwiceStore ==
    [UsedStore EXCEPT
        !.weather_snapshots[1] = snapshots_after(@, Snap(15, 2, "Rain"), 0, 60),
        !.sync_history[1] = success_record(@, NULL, 60),
        !.attempts[1] = 2]

\* The insight engine on a store that syncs have filled
InitInsights ==
    /\ \E s \in {EmptyStore, UsedStore, SyncedTwiceStore} : InitStore(s)
    /\ user_preferences = Some(Some(DefaultRefreshText))
    /\ now = 60
    /\ tasks = [t \in Tasks |-> IdleTask]
    /\ loop = [pc |-> "sleep", queue |-> <<>>, pass_locations |-> <<>>, synced |-> <<>>,
               refresh_interval |-> DefaultRefreshInterval, wake_at |-> 0]
    /\ ops = 0
    /\ faults = 0
    /\ ended = NoEnded
    /\ tie_break \in {"rowid_asc", "rowid_desc"}
    /\ insight = NoInsight
    /\ rate_limit_buckets = [h \in ClientHosts |-> <<>>]
    /\ requests = <<>>

NextInsights ==
    \E location_id \in LocIds, current \in InsightCurrents, forecast \in InsightForecasts :
        BuildWeatherInsights(location_id, current, forecast)

SpecInsights == InitInsights /\ [][NextInsights]_vars

\* Locations alone: two requests add and delete places while the geocoder
\* revises its answers
NextLocations ==
    \/ \E t \in ConcurrentRequests, name \in Places :
           \E answer \in GeocoderAnswers(name) : AddStart(t, name, answer)
    \/ \E t \in ConcurrentRequests : Geocoded(t)
    \/ \E l \in LocIds : DeleteLocation(l)
    \/ \E t \in ConcurrentRequests : CurrentFetched(t)
    \/ \E t \in ConcurrentRequests : ForecastFetched(t)

SpecLocations == Init /\ [][NextLocations]_vars

\* the updates requested in the model
LocationUpdates ==
    { LocationUpdate(display_name, is_favorite) :
        display_name \in {None, Some("Home")},
        is_favorite \in {None, Some(TRUE), Some(FALSE)} }

\* Locations and their flags: places are added, updated and deleted, also by
\* ids that are deleted or were never stored
NextFavorites ==
    \/ \E t \in Requests, name \in Places : AddStart(t, name, KnownCoords(name))
    \/ \E t \in Requests : Geocoded(t)
    \/ \E t \in Requests : CurrentFetched(t)
    \/ \E t \in Requests : ForecastFetched(t)
    \/ \E l \in LocIds : DeleteLocationCall(l)
    \/ \E l \in LocIds, update_data \in LocationUpdates : UpdateLocation(l, update_data)

SpecFavorites == Init /\ [][NextFavorites]_vars

\* the texts stored while the loop runs: every text of up to two characters,
\* and longer ones with blanks, a sign, a leading zero, letters
LoopPrefTexts ==
    TextsUpTo(PrefChars, 2)
        \cup { Text10, Text90, TextAbc, DefaultRefreshText, TextNone, <<" ", "9", "0">>,
               <<"-", "6", "0">>, <<"0", "6", "1">>, <<"9", "0", " ">>, <<"6", " ", "1">> }

\* The preference and the loop: the row is updated, the loop wakes and sleeps
NextPrefLoop ==
    \/ \E value \in LoopPrefTexts : UpdatePreference(value)
    \/ LoopWake
    \/ Tick

SpecPrefLoop == InitPref /\ [][NextPrefLoop]_vars

\* the rate limiter alone: requests of two clients as the clock advances
NextRateLimit ==
    \/ \E client \in Clients, path \in Paths : RateLimitMiddleware(client, path)
    \/ RateTick

SpecRateLimit == InitInsight /\ [][NextRateLimit]_vars

NextPref == \E value \in PrefTexts : UpdatePreference(value)

SpecPref == InitPref /\ [][NextPref]_vars

(***************************************************************************)
(* Vocabulary of the properties.                                           *)
(***************************************************************************)
Active(l) == l \in 1 .. Len(locations) /\ ~locations[l].is_deleted

InSync(t) == tasks[t].pc \in {"get_current_weather", "get_forecast"}

\* in this step request t calls sync_weather(l, force)
CallsSync(t, l, force) ==
    /\ tasks[t].pc = "idle"
    /\ ops' = ops + 1
    /\ \/ /\ tasks'[t].pc = "get_current_weather"
          /\ tasks'[t].op = "sync"
          /\ tasks'[t].location_id = l
          /\ tasks'[t].force = force
       \/ /\ ended'.task = t
          /\ ended'.result.call = "sync_weather"
          /\ ended'.result.location_id = l
          /\ ended'.result.force = force

\* the sync_weather call that ended in the last step, if one did
SyncEnded == ended.task # "none" /\ ended.result.call = "sync_weather"

LastOf(rows) == rows[Len(rows)]

\* the store holds a success record for l that is younger than the TTL, a
\* snapshot and a forecast row
CacheServes(l) ==
    /\ \E i \in 1 .. Len(sync_history[l]) :
          /\ sync_history[l][i].status = "success"
          /\ \A j \in 1 .. Len(sync_history[l]) :
                 sync_history[l][j].status = "success" =>
                     sync_history[l][j].synced_at <= sync_history[l][i].synced_at
          /\ now - sync_history[l][i].synced_at < sync_cache_age_seconds(user_preferences)
    /\ weather_snapshots[l] # <<>>
    /\ forecasts[l] # <<>>

IsLatestSnapshot(l, row) ==
    \E i \in 1 .. Len(weather_snapshots[l]) :
        /\ weather_snapshots[l][i] = row
        /\ \A j \in 1 .. Len(weather_snapshots[l]) :
               Get(weather_snapshots[l][j].timestamp) <= Get(row.timestamp)

WeatherTables == <<weather_snapshots, forecasts, sync_history>>

(***************************************************************************)
(* Properties.                                                             *)
(***************************************************************************)
\* C1: for an active location, sync(l, force=false) is served from the cache
\* exactly when a success record younger than the TTL (strictly), a stored
\* snapshot and a non-empty stored forecast exist; it then returns the latest
\* stored snapshot and the stored forecast with the cache note, calls the
\* provider zero times and leaves snapshots, forecasts and sync records as
\* they were.
C1_Step ==
    \A t \in Requests, l \in LocIds :
        (CallsSync(t, l, FALSE) /\ Active(l)) =>
            /\ CacheServes(l) <=> (ended'.task = t /\ ended'.result.path = "cache")
            /\ (ended'.task = t /\ ended'.result.path = "cache") =>
                  /\ ended'.result.status = "returned"
                  /\ IsSome(ended'.result.current)
                  /\ IsLatestSnapshot(l, Get(ended'.result.current))
                  /\ ended'.result.forecast = get_forecast(forecasts[l])
                  /\ ended'.result.note = "Used cached weather data to reduce API calls."
                  /\ ended'.result.calls = 0
                  /\ tasks'[t].pc = "idle"
                  /\ UNCHANGED WeatherTables
            /\ ~CacheServes(l) => (tasks'[t].pc = "get_current_weather" /\ tasks'[t].calls = 1)

C1_CacheFreshPath == [][C1_Step]_vars

\* a request was served from the cache
C1_Witness ==
    /\ SyncEnded
    /\ ended.result.path = "cache"
    /\ ended.result.calls = 0
    /\ ended.result.forecast # <<>>

\* C2: a forced sync of an active location calls the provider even when the
\* cache would serve; when it succeeds the stored forecast rows of the location
\* are exactly the payload's items (none when the payload is empty) and the
\* forecast rows of every other location are untouched.
C2_Step ==
    /\ \A t \in Requests, l \in LocIds :
          (CallsSync(t, l, TRUE) /\ Active(l)) =>
              /\ tasks'[t].pc = "get_current_weather"
              /\ tasks'[t].calls = 1
              /\ ended'.task # t
    /\ \A t \in Tasks :
          (/\ ended'.task = t
           /\ ended'.result.call = "sync_weather"
           /\ ended'.result.status = "returned"
           /\ ended'.result.force) =>
              /\ ended'.result.path = "refresh"
              /\ ended'.result.calls = 2
              /\ forecasts'[ended'.result.location_id] = ended'.result.forecast
              /\ \A other \in LocIds \ {ended'.result.location_id} :
                     forecasts'[other] = forecasts[other]

C2_ForcedSyncReplacesForecast == [][C2_Step]_vars

\* a forced sync with an empty payload succeeded on a location that had been
\* synced before, while another location holds forecast rows
C2_Witness ==
    /\ SyncEnded
    /\ ended.result.force
    /\ ended.result.status = "returned"
    /\ ended.result.forecast = <<>>
    /\ forecasts[ended.result.location_id] = <<>>
    /\ Len(sync_history[ended.result.location_id]) >= 2
    /\ \E other \in LocIds \ {ended.result.location_id} : forecasts[other] # <<>>

\* C3: a sync that fails on the refresh path, at whichever step, appends one
\* 'failed' record carrying the error text, raises the error and appends no
\* 'success' record; a 'success' record is only ever appended together with
\* the snapshot and the complete forecast of its sync.
C3_Step ==
    /\ \A t \in Tasks :
          (InSync(t) /\ ended'.task = t) =>
              LET l == tasks[t].location_id
              IN  /\ ended'.result.location_id = l
                  /\ ended'.result.path = "refresh"
                  /\ ended'.result.status \in {"returned", "raised"}
                  /\ ended'.result.status = "raised" =>
                        /\ ended'.result.error # NULL
                        /\ sync_history'[l] =
                               Append(sync_history[l],
                                      [status |-> "failed",
                                       error_message |-> ended'.result.error,
                                       synced_at |-> now])
                  /\ \A other \in LocIds \ {l} : sync_history'[other] = sync_history[other]
    /\ \A l \in LocIds :
          (/\ sync_history'[l] # sync_history[l]
           /\ LastOf(sync_history'[l]).status = "success") =>
              /\ ended'.result.call = "sync_weather"
              /\ ended'.result.location_id = l
              /\ ended'.result.status = "returned"
              /\ sync_history'[l] =
                     Append(sync_history[l],
                            [status |-> "success", error_message |-> ended'.result.note,
                             synced_at |-> now])
              /\ weather_snapshots'[l] =
                     Append(weather_snapshots[l],
                            [Get(ended'.result.current) EXCEPT !.timestamp = Some(now)])
              /\ forecasts'[l] = ended'.result.forecast

C3_FailedSyncIsRecorded == [][C3_Step]_vars

\* a sync failed while inserting the second forecast row: the snapshot and the
\* first row are stored, and the last record is the failure
C3_Witness ==
    /\ SyncEnded
    /\ ended.result.status = "raised"
    /\ ended.result.error = StoreErrorText
    /\ Len(forecasts[ended.result.location_id]) = 1
    /\ LastOf(sync_history[ended.result.location_id]).status = "failed"
    /\ LastOf(sync_history[ended.result.location_id]).error_message = StoreErrorText

\* C4, as stated: every sync attempt that has ended, cache-served and NotFound
\* ones included, has appended one sync record.
C4_OneRecordPerAttempt ==
    \A l \in LocIds : Len(sync_history[l]) = attempts[l]

\* C4, amended: every sync attempt that ended on the refresh path has appended
\* exactly one sync record, 'success' or 'failed'; attempts served from the
\* cache or rejected as NotFound have appended none.
C4_OneRecordPerRefresh ==
    \A l \in LocIds :
        /\ Len(sync_history[l]) = refreshes[l]
        /\ refreshes[l] <= attempts[l]
        /\ \A i \in 1 .. Len(sync_history[l]) :
               sync_history[l][i].status \in {"success", "failed"}
        /\ (SyncEnded /\ ended.result.location_id = l) =>
               (ended.result.path = "refresh" <=> ended.result.status \in {"returned", "raised"}
                                                   /\ ended.result.calls >= 1)

\* after a cache-served attempt and a failed one a location has fewer records
\* than attempts
C4_Witness ==
    \E l \in LocIds :
        /\ attempts[l] = 3
        /\ Len(sync_history[l]) = 2
        /\ LastOf(sync_history[l]).status = "failed"

\* C5: sync of an absent or soft-deleted location, forced or not, ends
\* NotFound with no provider call and no write; a location that add_location
\* stores or revives is active and its sync reaches the provider.
C5_Step ==
    /\ \A t \in Requests, l \in LocIds, force \in BOOLEAN :
          CallsSync(t, l, force) =>
              /\ ~Active(l) <=> (ended'.task = t /\ ended'.result.status = "NotFound")
              /\ ~Active(l) =>
                    /\ ended'.result.calls = 0
                    /\ tasks'[t].pc = "idle"
                    /\ UNCHANGED <<locations, weather_snapshots, forecasts, sync_history>>
    /\ \A t \in Requests :
          (tasks[t].pc = "geocode" /\ tasks'[t].pc \notin {"geocode", "idle"}) =>
              LET l == tasks'[t].location_id
              IN  /\ l \in 1 .. Len(locations')
                  /\ locations'[l].name = tasks[t].name
                  /\ ~locations'[l].is_deleted
                  /\ tasks'[t].pc = "get_current_weather"
                  /\ tasks'[t].force

C5_MissingLocationIsNotFound == [][C5_Step]_vars

\* a sync of a soft-deleted location ended NotFound
C5_Witness ==
    /\ SyncEnded
    /\ ended.result.status = "NotFound"
    /\ ended.result.location_id \in 1 .. Len(locations)
    /\ locations[ended.result.location_id].is_deleted
    /\ weather_snapshots[ended.result.location_id] # <<>>

\* C6: a sync that succeeds on the refresh path returns, and stores as the
\* message of its success record, the conflict text when a previous snapshot
\* existed and the temperature or the wind speed moved by 10 or more or the
\* weather category differs ignoring case; otherwise null.
C6_ConflictNote ==
    (SyncEnded /\ ended.result.status = "returned" /\ ended.result.path = "refresh") =>
        LET previous == ended.result.previous_current
            next == Get(ended.result.current)
            shifted ==
                /\ IsSome(previous)
                /\ \/ Get(previous).temperature - next.temperature >= 10
                   \/ next.temperature - Get(previous).temperature >= 10
                   \/ Get(previous).wind_speed - next.wind_speed >= 10
                   \/ next.wind_speed - Get(previous).wind_speed >= 10
                   \/ lower(Get(previous).weather_main) # lower(next.weather_main)
        IN  /\ shifted =>
                ended.result.note =
                    "Significant data shift detected; latest API response applied as source of truth."
            /\ ~shifted => ended.result.note = NULL
            /\ LastOf(sync_history[ended.result.location_id]).status = "success"
            /\ LastOf(sync_history[ended.result.location_id]).error_message = ended.result.note

\* a sync stored the conflict text after a temperature shift of exactly 10
C6_Witness ==
    /\ SyncEnded
    /\ ended.result.status = "returned"
    /\ IsSome(ended.result.previous_current)
    /\ Get(ended.result.current).temperature
           - Get(ended.result.previous_current).temperature = 10
    /\ ended.result.note # NULL
    /\ LastOf(sync_history[ended.result.location_id]).error_message = ended.result.note

\* C7: at most one sync is in flight per location.
C7_OneSyncInFlight ==
    \A l \in LocIds :
        Cardinality({ t \in Tasks : InSync(t) /\ tasks[t].location_id = l }) <= 1

\* C8: a pass of the background loop takes the active locations, each once,
\* and calls a forced sync for every one of them, one after the other,
\* whether or not the syncs before it failed; at the end of the pass the loop
\* sleeps for its interval, after which the next pass can start.
C8_Step ==
    /\ (loop.pc = "sleep" /\ loop' # loop) =>
           LET pass_locations == IF loop'.pc = "pass" THEN loop'.pass_locations
                                 ELSE Get(ended'.pass).locations
           IN  /\ { pass_locations[i] : i \in 1 .. Len(pass_locations) }
                      = { l \in LocIds : Active(l) }
               /\ Len(pass_locations) = Cardinality({ l \in LocIds : Active(l) })
    /\ loop'.pc \in {"sleep", "pass"}
    /\ loop'.pc = "pass" =>
           /\ loop'.synced \o loop'.queue = loop'.pass_locations
           /\ tasks'["bg"].pc \in {"get_current_weather", "get_forecast"}
           /\ tasks'["bg"].location_id = LastOf(loop'.synced)
           /\ tasks'["bg"].force
    /\ loop'.pc = "sleep" => tasks'["bg"].pc = "idle"
    /\ IsSome(ended'.pass) =>
           /\ Get(ended'.pass).synced = Get(ended'.pass).locations
           /\ loop'.pc = "sleep"
           /\ loop'.wake_at = now + loop'.refresh_interval
           /\ loop'.refresh_interval >= 60
    /\ (loop.pc = "pass" /\ ended'.task = "bg") =>
           \/ IsSome(ended'.pass) /\ loop.queue \in {<<>>} \cup { <<l>> : l \in LocIds }
           \/ /\ loop'.pc = "pass"
              /\ Len(loop'.synced) > Len(loop.synced)

C8_PassSyncsEveryLocation == [][C8_Step]_vars

\* a pass over two locations ended with the second one synced although the
\* sync of the first one had failed
C8_Witness ==
    /\ IsSome(ended.pass)
    /\ Len(Get(ended.pass).locations) = 2
    /\ Get(ended.pass).synced = Get(ended.pass).locations
    /\ LastOf(sync_history[Get(ended.pass).locations[1]]).status = "failed"
    /\ ended.task = "bg"
    /\ ended.result.status = "returned"
    /\ ended.result.location_id = Get(ended.pass).locations[2]

\* C9: get_weather_history always returns; its source is "api" exactly when
\* the provider was preferred, the location was active and the provider
\* returned at least one row, and then the rows are the provider's; otherwise
\* the source is "local" and the rows are the stored snapshots, newest first.
C9_Step ==
    \A t \in Requests :
        /\ (tasks[t].pc = "idle" /\ tasks'[t].pc = "get_historical_weather") =>
               Active(tasks'[t].location_id)
        /\ (ended'.task = t /\ ended'.result.call = "get_weather_history") =>
               LET res == ended'.result
                   l == res.location_id
                   from_api == /\ tasks[t].pc = "get_historical_weather"
                               /\ res.provider = "rows"
                               /\ res.provider_rows # <<>>
               IN  /\ res.status = "returned"
                   /\ res.source \in {"api", "local"}
                   /\ res.source = "api" <=> from_api
                   /\ tasks[t].pc = "idle" => ~(res.prefer_api /\ Active(l))
                   /\ from_api => res.rows = res.provider_rows
                   /\ ~from_api =>
                         /\ Len(res.rows) = Len(weather_snapshots[l])
                         /\ \A i \in 1 .. Len(res.rows) :
                                \E j \in 1 .. Len(weather_snapshots[l]) :
                                    res.rows[i] = weather_snapshots[l][j]
                         /\ \A i, j \in 1 .. Len(res.rows) :
                                i < j => Get(res.rows[i].timestamp) >= Get(res.rows[j].timestamp)
                   /\ UNCHANGED <<locations, weather_snapshots, forecasts, sync_history>>

C9_HistoryFallsBackToLocal == [][C9_Step]_vars

\* the provider failed and the history came from the local store
C9_Witness ==
    /\ ended.task # "none"
    /\ ended.result.call = "get_weather_history"
    /\ ended.result.provider = "failed"
    /\ ended.result.status = "returned"
    /\ ended.result.source = "local"
    /\ ended.result.rows # <<>>

\* the decimal integer a text denotes: blanks, an optional sign, one or more
\* digits, blanks
RefDigit(c) ==
    CASE c = "0" -> 0 [] c = "1" -> 1 [] c = "2" -> 2 [] c = "3" -> 3 [] c = "4" -> 4
      [] c = "5" -> 5 [] c = "6" -> 6 [] c = "7" -> 7 [] c = "8" -> 8 [] c = "9" -> 9
      [] OTHER -> -1

DigitRuns(text) ==
    { <<j, k>> \in (1 .. Len(text)) \X (1 .. Len(text)) :
        /\ j <= k
        /\ \A p \in j .. k : RefDigit(text[p]) >= 0
        /\ \A p \in k + 1 .. Len(text) : text[p] = " "
        /\ \/ \A p \in 1 .. j - 1 : text[p] = " "
           \/ /\ j > 1
              /\ text[j - 1] \in {"-", "+"}
              /\ \A p \in 1 .. j - 2 : text[p] = " " }

RECURSIVE RunValue(_, _, _)
RunValue(text, j, k) ==
    IF j > k THEN 0 ELSE RefDigit(text[j]) * 10 ^ (k - j) + RunValue(text, j + 1, k)

IntegerOf(text) ==
    LET run == CHOOSE r \in DigitRuns(text) : TRUE
        magnitude == RunValue(text, run[1], run[2])
    IN  IF run[1] > 1 /\ text[run[1] - 1] = "-" THEN 0 - magnitude ELSE magnitude

\* C10: whatever the stored refresh_interval row (absent, null value, any
\* text), the cache TTL resolves to an integer of at least 60: to 600 when the
\* row is absent, its value null or its text not an integer, and to the larger
\* of 60 and n when the text denotes the integer n; "abc" gives 600 and "10"
\* gives 60.
C10_TtlResolves ==
    LET ttl == sync_cache_age_seconds(user_preferences)
        stored == IsSome(user_preferences) /\ IsSome(Get(user_preferences))
        text == Get(Get(user_preferences))
    IN  /\ ttl \in Int
        /\ ttl >= 60
        /\ ~stored => ttl = 600
        /\ (stored /\ DigitRuns(text) = {}) => ttl = 600
        /\ (stored /\ DigitRuns(text) # {}) =>
               ttl = (IF IntegerOf(text) >= 60 THEN IntegerOf(text) ELSE 60)
        /\ (stored /\ text = <<"a", "b", "c">>) => ttl = 600
        /\ (stored /\ text = <<"1", "0">>) => ttl = 60

\* an update stored "10", which resolves to the floor
C10_Witness ==
    /\ user_preferences = Some(Some(<<"1", "0">>))
    /\ sync_cache_age_seconds(user_preferences) = 60
    /\ int(Get(Get(user_preferences))) = Some(10)

\* C11: the confidence score of a forecast item is 82 less 18 or 9 for pop
\* (>= 0.6, >= 0.3), less 14 or 7 for wind (>= 12, >= 8), less 18 for a
\* thunderstorm, squall or tornado in any letter case, brought into [35,95];
\* the label is "High" from 76, "Medium" from 58 to 75, "Low" below 58.
C11_ConfidenceScore ==
    insight.call = "_build_confidence_item" =>
        LET item == insight.item
            severe == item.weather_main \in
                          {"thunderstorm", "Thunderstorm", "THUNDERSTORM", "squall", "Squall",
                           "SQUALL", "tornado", "Tornado", "TORNADO"}
            raw == 82 - (IF item.pop >= 600 THEN 18 ELSE IF item.pop >= 300 THEN 9 ELSE 0)
                      - (IF item.wind_speed >= 120 THEN 14
                         ELSE IF item.wind_speed >= 80 THEN 7 ELSE 0)
                      - (IF severe THEN 18 ELSE 0)
            score == insight.result.score
        IN  /\ score = (IF raw < 35 THEN 35 ELSE IF raw > 95 THEN 95 ELSE raw)
            /\ score >= 35
            /\ score <= 95
            /\ insight.result.label \in {"High", "Medium", "Low"}
            /\ insight.result.label = "High" <=> score >= 76
            /\ insight.result.label = "Medium" <=> (score >= 58 /\ score <= 75)
            /\ insight.result.label = "Low" <=> score < 58

\* an item with wind 8 m/s only scores 75 and is labelled "Medium"
C11_Witness ==
    /\ insight.call = "_build_confidence_item"
    /\ insight.result.score = 75
    /\ insight.result.label = "Medium"

\* C12: for every current snapshot, present or absent, and every forecast,
\* the commute, outdoor, laundry and running scores lie in [0,100]: with the
\* hot and freezing adjustments, and for pop = 1.0, wind = 100 m/s and
\* temperatures of +100 and -100.
C12_ImpactScoresInRange ==
    insight.call = "_build_impact_scores" =>
        /\ DOMAIN insight.result = {"commute", "outdoor", "laundry", "running"}
        /\ \A name \in DOMAIN insight.result :
               /\ insight.result[name] \in Int
               /\ insight.result[name] >= 0
               /\ insight.result[name] <= 100

\* freezing, with pop 1.0 and wind 100 m/s and no current snapshot: commute is
\* 100 - 45 - 24 - 10 and running 100 - 40 - 21 - 22
C12_Witness ==
    /\ insight.call = "_build_impact_scores"
    /\ insight.current = None
    /\ insight.forecast = <<ForecastItem(100, 1000, 1000, -1000, "Rain", "")>>
    /\ insight.result = [commute |-> 21, outdoor |-> 26, laundry |-> 10, running |-> 17]

\* C13: the timeline of a forecast has at most 6 events, ascending by forecast
\* timestamp, all of them emitted by the first 12 items; of more than 6 emitted
\* events the 6 with the smallest timestamps are kept, events of one timestamp
\* in emission order: by item position, and within an item Rain window, Wind
\* surge, Severe convection.
C13_TimelineKeepsEarliestSix ==
    insight.call = "_build_timeline_events" =>
        LET forecast == insight.forecast
            result == insight.result
            Titles == <<"Rain window", "Wind surge", "Severe convection">>
            last_item == IF Len(forecast) < 12 THEN Len(forecast) ELSE 12
            emits(i, k) ==
                CASE k = 1 -> forecast[i].pop >= 600
                  [] k = 2 -> forecast[i].wind_speed >= 120
                  [] k = 3 -> forecast[i].weather_main \in
                                  {"Thunderstorm", "Squall", "Tornado", "thunderstorm",
                                   "squall", "tornado"}
            Slots == { s \in (1 .. last_item) \X (1 .. 3) : emits(s[1], s[2]) }
            ts(s) == forecast[s[1]].forecast_timestamp
            before(r, s) ==
                \/ ts(r) < ts(s)
                \/ ts(r) = ts(s) /\ (r[1] < s[1] \/ (r[1] = s[1] /\ r[2] < s[2]))
            rank(s) == Cardinality({ r \in Slots : before(r, s) }) + 1
        IN  /\ Len(result) <= 6
            /\ Len(result) = (IF Cardinality(Slots) < 6 THEN Cardinality(Slots) ELSE 6)
            /\ \A i \in 1 .. Len(result), j \in 1 .. Len(result) :
                   i < j => result[i].timestamp <= result[j].timestamp
            /\ \A s \in Slots :
                   rank(s) <= 6 =>
                       /\ result[rank(s)].timestamp = ts(s)
                       /\ result[rank(s)].title = Titles[s[2]]

\* twelve stormy items emit 36 events: the six kept are those of the twelfth
\* item, which has the smallest timestamp, then those of the first; the
\* thirteenth item, as early as the twelfth and rainy, gives none
C13_Witness ==
    /\ insight.call = "_build_timeline_events"
    /\ Len(insight.forecast) = 13
    /\ insight.forecast[13] = TimelineItem(100, [pop |-> 600, wind_speed |-> 30,
                                                 weather_main |-> "Rain"])
    /\ insight.result =
           << TimelineEvent(100, "Rain window", "high", "90% precip chance"),
              TimelineEvent(100, "Wind surge", "high", "17.5 m/s gust potential"),
              TimelineEvent(100, "Severe convection", "high", "thunderstorm"),
              TimelineEvent(150, "Rain window", "high", "90% precip chance"),
              TimelineEvent(150, "Wind surge", "high", "17.5 m/s gust potential"),
              TimelineEvent(150, "Severe convection", "high", "storm") >>

\* C14: the alert list has at most 4 entries and none twice, and it is the
\* alerts that apply, in this order: reduced visibility (the current snapshot
\* has a visibility below 2500), strong winds (current wind >= 14 m/s), heavy
\* rain (one of the first 8 items has pop >= 0.7), severe storm (one of the
\* first 12 items is a thunderstorm, tornado or squall).  So a pop >= 0.7 at
\* positions 9 to 12 alone raises no heavy-rain alert, and without a current
\* snapshot neither of the first two alerts appears.
C14_AlertsInFixedOrder ==
    insight.call = "_build_alerts" =>
        LET current == insight.current
            forecast == insight.forecast
            result == insight.result
            upto(n) == 1 .. (IF Len(forecast) < n THEN Len(forecast) ELSE n)
            applies ==
                << current # None /\ current[1].visibility # None
                       /\ current[1].visibility[1] < 2500,
                   current # None /\ current[1].wind_speed >= 140,
                   \E i \in upto(8) : forecast[i].pop >= 700,
                   \E i \in upto(12) : forecast[i].weather_main \in
                                           {"Tornado", "squall", "Squall", "tornado",
                                            "Thunderstorm", "thunderstorm"} >>
            text == << "Reduced visibility now. Drive with caution.",
                       "Strong winds in effect. Secure loose outdoor items.",
                       "Heavy rain risk in the next 24 hours.",
                       "Potential severe storm cells detected in forecast window." >>
            position(k) == Cardinality({ j \in 1 .. k : applies[j] })
        IN  /\ Len(result) <= 4
            /\ \A i \in 1 .. Len(result), j \in 1 .. Len(result) :
                   i # j => result[i] # result[j]
            /\ Len(result) = position(4)
            /\ \A k \in 1 .. 4 : applies[k] => result[position(k)] = text[k]
            /\ (\A i \in upto(8) : forecast[i].pop < 700) =>
                   \A i \in 1 .. Len(result) : result[i] # text[3]
            /\ current = None =>
                   \A i \in 1 .. Len(result) : result[i] \notin {text[1], text[2]}

\* no current snapshot, and the ninth of thirteen items is a tornado with pop
\* 0.7: the storm alert alone
C14_Witness ==
    /\ insight.call = "_build_alerts"
    /\ insight.current = None
    /\ Len(insight.forecast) = 13
    /\ insight.forecast[9].pop = 700
    /\ insight.forecast[9].weather_main = "Tornado"
    /\ insight.result = <<"Potential severe storm cells detected in forecast window.">>

\* C15, as stated: with no previous snapshot the change summary of any current
\* snapshot and any forecast has temperature, rain and wind deltas of 0 and the
\* headline "No major change since last sync."
C15_AllDeltasZero ==
    (/\ insight.call = "_build_change_summary"
     /\ insight.previous_current = None
     /\ insight.current # None) =>
        /\ insight.result # None
        /\ insight.result[1].temperature_delta = 0
        /\ insight.result[1].rain_delta = 0
        /\ insight.result[1].wind_delta = 0
        /\ insight.result[1].headline = "No major change since last sync."

\* C15: with no previous snapshot the change summary of a current snapshot has
\* temperature and wind deltas of 0, and its rain delta is the peak pop of the
\* first 8 forecast items as a percentage (0 for an empty forecast); the
\* headline is "No major change since last sync." when that is below 10, and
\* the rain clause alone otherwise.
C15_RainDeltaIsPeakPop ==
    (/\ insight.call = "_build_change_summary"
     /\ insight.previous_current = None
     /\ insight.current # None) =>
        LET forecast == insight.forecast
            first8 == 1 .. (IF Len(forecast) < 8 THEN Len(forecast) ELSE 8)
            peak == IF first8 = {} THEN 0
                    ELSE CHOOSE p \in { forecast[i].pop : i \in first8 } :
                             \A i \in first8 : forecast[i].pop <= p
        IN  /\ insight.result # None
            /\ insight.result[1].temperature_delta = 0
            /\ insight.result[1].wind_delta = 0
            /\ insight.result[1].rain_delta = peak
            /\ insight.result[1].headline = "No major change since last sync." <=> peak < 100
            /\ peak = 700 => insight.result[1].headline = "rain risk up 70%"
            /\ peak = 345 => insight.result[1].headline = "rain risk up 34%"
            /\ peak = 355 => insight.result[1].headline = "rain risk up 36%"

\* the first sync of a location with a 70% rain peak ahead
C15_Witness ==
    /\ insight.call = "_build_change_summary"
    /\ insight.previous_current = None
    /\ insight.current # None
    /\ insight.result # None
    /\ insight.result[1].rain_delta = 700
    /\ insight.result[1].temperature_delta = 0
    /\ insight.result[1].headline = "rain risk up 70%"

\* C16: with a current snapshot the briefing is "Now {temperature, one
\* decimal} deg with {description, or the main condition when the description
\* is empty}. Peak rain chance next 24h is {P}%. Outdoor score {outdoor}/100."
\* with P the peak pop of the first 8 forecast items times 100, rounded to the
\* nearest integer (0 for an empty forecast), and outdoor the outdoor score of
\* the same insights, followed by " Priority alert: " and the first alert
\* exactly when there are alerts; without a current snapshot it is "Sync
\* weather to generate a personalized briefing."
C16_BriefingRoundsPeak ==
    (insight.call = "build_weather_insights" /\ insight.result # None) =>
        LET current == insight.current
            forecast == insight.forecast
            result == insight.result[1]
            first8 == 1 .. (IF Len(forecast) < 8 THEN Len(forecast) ELSE 8)
            peak == IF first8 = {} THEN 0
                    ELSE CHOOSE p \in { forecast[i].pop : i \in first8 } :
                             \A i \in first8 : forecast[i].pop <= p
            P == (peak + 5) \div 10
            tenths == current[1].temperature
            temperature == (IF tenths < 0 THEN "-" ELSE "")
                               \o ToString((IF tenths < 0 THEN 0 - tenths ELSE tenths) \div 10)
                               \o "."
                               \o ToString((IF tenths < 0 THEN 0 - tenths ELSE tenths) % 10)
            condition == IF current[1].weather_description = ""
                         THEN current[1].weather_main
                         ELSE current[1].weather_description
            summary == "Now " \o temperature \o " deg with " \o condition
                           \o ". Peak rain chance next 24h is " \o ToString(P)
                           \o "%. Outdoor score " \o ToString(result.impact_scores.outdoor)
                           \o "/100."
        IN  result.briefing =
                (IF current = None THEN "Sync weather to generate a personalized briefing."
                 ELSE IF result.alerts = <<>> THEN summary
                 ELSE summary \o " Priority alert: " \o result.alerts[1])

\* C20: build_weather_insights(location_id, current, forecast) returns None if
\* and only if current is absent and forecast is empty; otherwise it returns
\* insights, and in either case snapshots, forecasts, sync records, locations
\* and preferences are as they were before the call.
C20_Step ==
    (insight.call = "none" /\ insight'.call = "build_weather_insights") =>
        /\ insight'.result = None <=> (insight'.current = None /\ insight'.forecast = <<>>)
        /\ insight'.result # None =>
               /\ Len(insight'.result) = 1
               /\ DOMAIN insight'.result[1] =
                      {"briefing", "confidence", "impact_scores", "timeline", "alerts",
                       "change_summary"}
        /\ weather_snapshots' = weather_snapshots
        /\ forecasts' = forecasts
        /\ sync_history' = sync_history
        /\ locations' = locations
        /\ user_preferences' = user_preferences

C20_BuildReturnsNullIffNoData == [][C20_Step]_vars

\* a forecast without a current snapshot, for a location synced twice:
\* insights with the fixed briefing and no change summary
C20_Witness ==
    /\ insight.call = "build_weather_insights"
    /\ insight.current = None
    /\ insight.forecast # <<>>
    /\ insight.result # None
    /\ insight.result[1].briefing = "Sync weather to generate a personalized briefing."
    /\ insight.result[1].change_summary = None
    /\ Len(weather_snapshots[insight.location_id]) = 2

\* C17: sync records are append-only.  In every step (a sync that succeeds, a
\* sync that fails, a cache hit, add_location, delete_location and the revival
\* of a deleted location, a preference update, a background pass) the sync
\* records of each location are kept as they are and only extended at the
\* end, and the time of its most recent successful sync does not go back.
C17_Step ==
    \A l \in LocIds :
        /\ Len(sync_history'[l]) >= Len(sync_history[l])
        /\ SubSeq(sync_history'[l], 1, Len(sync_history[l])) = sync_history[l]
        /\ \A i \in 1 .. Len(sync_history[l]) :
               sync_history[l][i].status = "success" =>
                   \E j \in 1 .. Len(sync_history'[l]) :
                       /\ sync_history'[l][j].status = "success"
                       /\ sync_history'[l][j].synced_at >= sync_history[l][i].synced_at
                       /\ \A k \in 1 .. Len(sync_history'[l]) :
                              sync_history'[l][k].status = "success" =>
                                  sync_history'[l][k].synced_at <= sync_history'[l][j].synced_at

C17_SyncRecordsAppendOnly == [][C17_Step]_vars

\* a location synced at 0 and again a minute later, then deleted: its two
\* success records are still there, in order
C17_Witness ==
    \E l \in LocIds :
        /\ l \in 1 .. Len(locations)
        /\ locations[l].is_deleted
        /\ Len(sync_history[l]) = 2
        /\ sync_history[l][1] = SyncRecord("success", NULL, 0)
        /\ sync_history[l][2].status = "success"
        /\ sync_history[l][2].synced_at = TickSeconds

\* C18: after any sequence of add_location and delete_location calls, two
\* add_location calls for one place in flight together included, the store
\* holds at most one row per place as the geocoder names it; add_location for
\* a place whose row exists, deleted or active, inserts no row: it keeps that
\* row's id, clears its deleted flag and sets its coordinates to those just
\* geocoded.
C18_OneRowPerPlace ==
    \A i \in 1 .. Len(locations), j \in 1 .. Len(locations) :
        locations[i].name = locations[j].name => i = j

C18_Step ==
    \A t \in ConcurrentRequests :
        (/\ tasks[t].pc = "geocode"
         /\ tasks'[t].pc # "geocode"
         /\ locations' # locations \/ tasks'[t].pc # "idle") =>
            LET name == tasks[t].name
                rows == { i \in 1 .. Len(locations) : locations[i].name = name }
            IN  IF rows # {}
                THEN /\ Len(locations') = Len(locations)
                     /\ \A i \in rows :
                            /\ locations'[i].name = name
                            /\ locations'[i].is_deleted = FALSE
                            /\ locations'[i].latitude = tasks[t].lat
                            /\ locations'[i].longitude = tasks[t].lon
                     /\ \A i \in (1 .. Len(locations)) \ rows : locations'[i] = locations[i]
                ELSE /\ Len(locations') = Len(locations) + 1
                     /\ locations'[Len(locations')].name = name
                     /\ \A i \in 1 .. Len(locations) : locations'[i] = locations[i]

C18_AddReusesTheRow == []C18_OneRowPerPlace /\ [][C18_Step]_vars

\* two requests have added London together and both are in its automatic
\* sync: one row, active, with the revised coordinates
C18_Witness ==
    /\ ops = 2
    /\ Len(locations) = 1
    /\ locations[1] = Location("London", RevisedCoords("London").lat,
                               RevisedCoords("London").lon, FALSE)
    /\ \A t \in ConcurrentRequests : tasks[t].op = "add" /\ tasks[t].pc = "get_current_weather"

\* C19: when a sync of a location returns from the refresh path, it returns
\* the provider's current snapshot and forecast; the latest stored snapshot of
\* the location, as get_latest_weather reads it, equals the returned current;
\* the stored forecast read back in ascending target time equals the returned
\* forecast; the most recent success record, as get_last_sync_note reads it,
\* has the returned note as its message; and the snapshots stored before are
\* all still there, one row having been added.
C19_Step ==
    \A t \in Tasks :
        (/\ ended'.task = t
         /\ ended'.result.call = "sync_weather"
         /\ ended'.result.status = "returned"
         /\ ended'.result.path = "refresh") =>
            LET result == ended'.result
                l == result.location_id
                before == weather_snapshots[l]
                after == weather_snapshots'[l]
                latest == get_latest_weather(after, tie_break)
            IN  /\ result.current = tasks[t].current
                /\ result.current # None
                /\ result.current[1] \in ProviderCurrent
                /\ result.forecast \in ProviderForecast
                /\ latest # None
                /\ [latest[1] EXCEPT !.timestamp = None] = result.current[1]
                /\ get_forecast(forecasts'[l]) = result.forecast
                /\ get_last_sync_note(sync_history'[l], tie_break) = result.note
                /\ Len(after) = Len(before) + 1
                /\ SubSeq(after, 1, Len(before)) = before

C19_RefreshReadsBackWhatItReturns == [][C19_Step]_vars

(***************************************************************************)
(* C21.  The rate limiter.                                                 *)
(***************************************************************************)

\* the requests of a host that were counted: admitted on a path outside the docs
Counted(host) ==
    {i \in DOMAIN requests :
        /\ requests[i].host = host
        /\ requests[i].path \notin DocPaths
        /\ requests[i].handled}

\* the times of the counted requests of a host, in order
RECURSIVE CountedTimes(_, _)
CountedTimes(host, n) ==
    IF n = 0 THEN <<>>
    ELSE IF n \in Counted(host)
         THEN Append(CountedTimes(host, n - 1), requests[n].at)
         ELSE CountedTimes(host, n - 1)

\* s is what is left of q after dropping some of its first elements
IsSuffix(s, q) ==
    /\ Len(s) <= Len(q)
    /\ \A k \in 1 .. Len(s) : s[k] = q[Len(q) - Len(s) + k]

\* C21: per client host at most RATE_LIMIT_REQUESTS requests to paths outside
\* the docs are admitted within any window of RATE_LIMIT_WINDOW_SECONDS; a
\* request is answered 429, without the handler, exactly when the host already
\* has RATE_LIMIT_REQUESTS admitted requests no older than the window, whatever
\* other hosts did; a rejected request is not recorded, so a bucket holds only
\* admission times and never more than RATE_LIMIT_REQUESTS of them; the doc
\* paths are always handled and never counted.
C21_RateLimit ==
    /\ \A host \in ClientHosts, t \in 0 .. MaxRateTime :
           Cardinality({i \in Counted(host) :
                           /\ requests[i].at >= t
                           /\ requests[i].at <= t + RATE_LIMIT_WINDOW_SECONDS})
               <= RATE_LIMIT_REQUESTS
    /\ \A i \in DOMAIN requests :
           LET r == requests[i]
               recent == {j \in Counted(r.host) :
                             /\ j < i
                             /\ requests[j].at >= r.at - RATE_LIMIT_WINDOW_SECONDS}
           IN  /\ r.status = 429 <=> ~r.handled
               /\ r.path \in DocPaths => r.handled
               /\ r.path \notin DocPaths =>
                      (r.status = 429 <=> Cardinality(recent) >= RATE_LIMIT_REQUESTS)
    /\ \A host \in ClientHosts :
           /\ Len(rate_limit_buckets[host]) <= RATE_LIMIT_REQUESTS
           /\ IsSuffix(rate_limit_buckets[host], CountedTimes(host, Len(requests)))

\* a host was rejected at the end of a full window, admitted again once the
\* window had passed, while the other host and a doc path were served
C21_Witness ==
    /\ \E i, j \in DOMAIN requests :
           /\ i < j
           /\ requests[i].host = requests[j].host
           /\ requests[i].status = 429
           /\ requests[j].path \notin DocPaths
           /\ requests[j].handled
    /\ \E i \in DOMAIN requests : requests[i].path \in DocPaths

(***************************************************************************)
(* C22.  The reason of a confidence item.                                  *)
(***************************************************************************)

\* C22: the reason of a confidence item is "convective conditions expected"
\* for a thunderstorm, squall or tornado in any letter case; otherwise "wind
\* variability is high" for wind of 12 m/s or more; otherwise "rain risk is
\* high" for pop of 0.6 or more; otherwise "stable signals", also when pop in
\* [0.3, 0.6) or wind in [8, 12) has lowered the score.
C22_ReasonByPriority ==
    insight.call = "_build_confidence_item" =>
        LET item == insight.item
            reason == insight.result.reason
            convective == item.weather_main \in
                              {"thunderstorm", "Thunderstorm", "THUNDERSTORM", "squall",
                               "Squall", "SQUALL", "tornado", "Tornado", "TORNADO"}
            windy == item.wind_speed >= 120
            rainy == item.pop >= 600
        IN  /\ reason = "convective conditions expected" <=> convective
            /\ reason = "wind variability is high" <=> (~convective /\ windy)
            /\ reason = "rain risk is high" <=> (~convective /\ ~windy /\ rainy)
            /\ reason = "stable signals" <=> (~convective /\ ~windy /\ ~rainy)
            /\ (/\ ~convective
                /\ item.pop < 600
                /\ item.wind_speed < 120
                /\ (item.pop >= 300 \/ item.wind_speed >= 80))
               => (reason = "stable signals" /\ insight.result.score < 82)

\* pop 0.599 and wind 11.9 m/s: the score is 82 - 9 - 7, the reason "stable signals"
C22_Witness ==
    /\ insight.call = "_build_confidence_item"
    /\ insight.item.pop = 599
    /\ insight.item.wind_speed = 119
    /\ insight.result.score = 66
    /\ insight.result.reason = "stable signals"

(***************************************************************************)
(* C23.  The impact scores against their reference formulas.               *)
(***************************************************************************)

\* k is numerator / denominator cut towards zero, for a positive denominator
IsTrunc(k, numerator, denominator) ==
    IF numerator >= 0
    THEN k * denominator <= numerator /\ numerator < (k + 1) * denominator
    ELSE (k - 1) * denominator < numerator /\ numerator <= k * denominator

\* trunc(numerator / denominator), found by search
Trunc(numerator, denominator) ==
    CHOOSE k \in -400 .. 400 : IsTrunc(k, numerator, denominator)

\* the reference scores; pop in thousandths, wind and temperature in tenths
ReferenceScores(current, forecast) ==
    LET window == [i \in 1 .. (IF Len(forecast) < 8 THEN Len(forecast) ELSE 8) |-> forecast[i]]
        n == Len(window)
        total(field) == Sum([i \in 1 .. n |-> window[i][field]])
        \* avgTemp < bound, avgTemp > bound, for a bound in degrees
        temp_below(bound) ==
            IF IsSome(current) THEN Get(current).temperature < bound * 10
            ELSE IF n > 0 THEN total("temperature") < bound * 10 * n
            ELSE 20 < bound
        temp_above(bound) ==
            IF IsSome(current) THEN Get(current).temperature > bound * 10
            ELSE IF n > 0 THEN total("temperature") > bound * 10 * n
            ELSE 20 > bound
        \* trunc(avgPop * weight)
        rain(weight) == IF n = 0 THEN 0 ELSE Trunc(total("pop") * weight, 1000 * n)
        \* trunc(min(avgWind, cap) * tenths / 10)
        wind(cap, tenths) ==
            IF n = 0 THEN 0
            ELSE IF total("wind_speed") > cap * 10 * n THEN Trunc(cap * tenths, 10)
            ELSE Trunc(total("wind_speed") * tenths, 100 * n)
        hot == temp_above(32)
        freezing == ~hot /\ temp_below(0)
        clamped(score) == IF score < 0 THEN 0 ELSE IF score > 100 THEN 100 ELSE score
    IN  [commute |-> clamped(100 - rain(45) - wind(20, 12) - (IF freezing THEN 10 ELSE 0)),
         outdoor |-> clamped(100 - rain(55) - wind(18, 11) - (IF hot THEN 12 ELSE 0)),
         laundry |-> clamped(100 - rain(70) - (IF temp_below(6) THEN 20 ELSE 0)),
         running |-> clamped(100 - rain(40) - wind(15, 14)
                                 - (IF hot THEN 18 ELSE IF freezing THEN 22 ELSE 0))]

\* the forecast with the wind of every item set to wind_speed
WithWind(forecast, wind_speed) ==
    [i \in DOMAIN forecast |-> [forecast[i] EXCEPT !.wind_speed = wind_speed]]

\* the forecasts that differ from forecast in a higher pop of one window item
WithMorePop(forecast) ==
    { [forecast EXCEPT ![i].pop = pop] :
        i \in {j \in DOMAIN forecast : j <= 8},
        pop \in {-1000, 0, 500, 1000, 3000} } \ { forecast }

\* C23: the impact scores equal the reference formulas for every current
\* snapshot, present or absent, and every forecast; laundry is the same for
\* every wind; a higher pop of a window item raises no score.
C23_ImpactScoresAsReference ==
    insight.call = "_build_impact_scores" =>
        /\ insight.result = ReferenceScores(insight.current, insight.forecast)
        /\ \A wind_speed \in {0, 100, 1000} :
               build_impact_scores(insight.current,
                                   WithWind(insight.forecast, wind_speed)).laundry
                   = insight.result.laundry
        /\ \A wetter \in WithMorePop(insight.forecast) :
               (\A i \in DOMAIN wetter : wetter[i].pop >= insight.forecast[i].pop)
               => \A name \in DOMAIN insight.result :
                      build_impact_scores(insight.current, wetter)[name]
                          <= insight.result[name]

\* a freezing current snapshot with a forecast of 33 degrees, pop 0.5 and wind
\* 10 m/s: the current temperature decides, commute and running lose 10 and 22
C23_Witness ==
    /\ insight.call = "_build_impact_scores"
    /\ insight.current = Some(Weather(-1000, 30, Some(10000), "Clear", "clear sky"))
    /\ insight.forecast = <<ForecastItem(100, 500, 100, 330, "Rain", "")>>
    /\ insight.result = [commute |-> 56, outdoor |-> 62, laundry |-> 45, running |-> 44]

(***************************************************************************)
(* C24.  Soft-deleted locations and the favorite flag.                     *)
(***************************************************************************)

\* no soft-deleted location is a favorite
C24_DeletedNotFavorite ==
    \A l \in 1 .. Len(locations) : locations[l].is_deleted => ~locations[l].is_favorite

C24_Step ==
    LET l == ended'.result.location_id
        deleting == ended'.result.call = "delete_location"
        updating == ended'.result.call = "update_location"
    IN  /\ deleting =>
               /\ ended'.result.status = "returned" <=> Active(l)
               /\ Active(l) =>
                      /\ locations'[l].is_deleted
                      /\ ~locations'[l].is_favorite
                      /\ \A i \in 1 .. Len(locations) : i # l => locations'[i] = locations[i]
               /\ ~Active(l) => locations' = locations
        /\ (updating /\ ~Active(l)) =>
               /\ locations' = locations
               /\ ended'.result.status = "not_found"
        /\ \A i \in 1 .. Len(locations) :
               (locations[i].is_deleted /\ ~locations'[i].is_deleted)
                   => ~locations'[i].is_favorite

\* C24: in every reachable state a soft-deleted location is not a favorite;
\* delete_location sets the deleted flag and clears the favorite flag in one
\* step and returns true exactly when the location was active, changing nothing
\* otherwise; update_location changes nothing of a soft-deleted location and
\* returns none; a location revived by add_location is not a favorite.
C24_SoftDeletedIsNotFavorite == []C24_DeletedNotFavorite /\ [][C24_Step]_vars

\* an update of the soft-deleted first location was answered 404 and left it
\* deleted and not a favorite, while the second location is a favorite
C24_Witness ==
    /\ Len(locations) = 2
    /\ locations[1].is_deleted
    /\ ~locations[1].is_favorite
    /\ locations[2].is_favorite
    /\ ended.result.call = "update_location"
    /\ ended.result.location_id = 1
    /\ ended.result.status = "not_found"

(***************************************************************************)
(* C25.  A failed sync and the weather data.                               *)
(***************************************************************************)

C25_Step ==
    (/\ ended'.result.call = "sync_weather"
     /\ ended'.result.status = "raised"
     /\ ended'.result.path = "refresh")
    => LET l == ended'.result.location_id
       IN  /\ LastOf(sync_history'[l]).status = "failed"
           /\ weather_snapshots'[l] = weather_snapshots[l]
           /\ forecasts'[l] = forecasts[l]

\* C25: when a sync on the refresh path ends in failure, with its failed
\* record appended, the snapshot rows and the forecast rows of the location
\* are those stored before, whichever step failed.
C25_FailedSyncWritesNothing == [][C25_Step]_vars

(***************************************************************************)
(* C26.  The stored forecast under overlapping syncs.                      *)
(***************************************************************************)

C26_Step ==
    \A l \in LocIds :
        LET succeeded == /\ ended'.result.call = "sync_weather"
                         /\ ended'.result.status = "returned"
                         /\ ended'.result.path = "refresh"
                         /\ ended'.result.location_id = l
        IN  /\ forecasts'[l] # forecasts[l] => succeeded
            /\ succeeded =>
                   /\ forecasts'[l] = ended'.result.forecast
                   /\ Len(weather_snapshots'[l]) = Len(weather_snapshots[l]) + 1

\* C26: however syncs of one location overlap, the stored forecast of a
\* location changes only in the step in which a sync succeeds, and then to
\* the complete payload of that sync: no state shows it emptied by a delete
\* whose inserts are still to come, or holding part of a payload; and every
\* successful sync adds exactly one snapshot row.
C26_ForecastIsOnePayload == [][C26_Step]_vars

(***************************************************************************)
(* C27.  The snapshot a conflict note is computed against.                 *)
(***************************************************************************)

C27_Step ==
    (/\ ended'.result.call = "sync_weather"
     /\ ended'.result.status = "returned"
     /\ ended'.result.path = "refresh")
    => LET l == ended'.result.location_id
           preceding == IF weather_snapshots[l] = <<>> THEN None
                        ELSE Some(LastOf(weather_snapshots[l]))
       IN  /\ LastOf(sync_history'[l]).error_message = ended'.result.note
           /\ ended'.result.note
                  = detect_conflict_note(preceding, Get(ended'.result.current))

\* C27: the conflict note recorded with a successful sync is the one computed
\* against the snapshot stored last before the new snapshot is inserted, also
\* when syncs of the location overlap.
C27_NoteAgainstPrecedingSnapshot == [][C27_Step]_vars

(***************************************************************************)
(* C28.  A failed sync and the cache.                                      *)
(***************************************************************************)

C28_Step ==
    LET synced == IF ended'.result.call = "sync_weather"
                  THEN {ended'.result.location_id} ELSE {}
        failed == ended'.result.status = "raised" /\ ended'.result.path = "refresh"
    IN  /\ \A l \in LocIds \ synced :
               get_last_sync_time(sync_history'[l]) = get_last_sync_time(sync_history[l])
        /\ \A l \in synced :
               failed =>
                   /\ get_last_sync_time(sync_history'[l])
                          = get_last_sync_time(sync_history[l])
                   /\ CacheServes(l)' <=> CacheServes(l)

\* C28: a failed sync leaves the last-success time of its location unchanged,
\* and a sync with force = false that follows it is served from the cache
\* exactly if it would have been without the failed sync; the last-success
\* time of a location is changed by no sync of another location.
C28_FailedSyncLeavesCacheAsItWas == [][C28_Step]_vars

(***************************************************************************)
(* C29.  Weather data of a soft-deleted location.                          *)
(***************************************************************************)

C29_Step ==
    \A l \in 1 .. Len(locations) :
        (locations[l].is_deleted /\ locations'[l].is_deleted) =>
            /\ weather_snapshots'[l] = weather_snapshots[l]
            /\ forecasts'[l] = forecasts[l]
            /\ SuccessRows(sync_history'[l]) = SuccessRows(sync_history[l])

\* C29: while a location is soft-deleted, no step adds a snapshot row, a
\* forecast row or a success record for it, also not the step of a sync that
\* found the location active before it was deleted and was suspended on a
\* provider fetch meanwhile.
C29_NoWeatherForDeletedLocation == [][C29_Step]_vars

(***************************************************************************)
(* C30.  The loop's sleep interval and the cache TTL.                      *)
(***************************************************************************)

\* the interval and the TTL agree on the stored preference
C30_SameOnStore ==
    loop_refresh_interval(user_preferences) = sync_cache_age_seconds(user_preferences)

C30_Step ==
    (loop.pc = "sleep" /\ loop' # loop) =>
        LET stored == IsSome(user_preferences) /\ IsSome(Get(user_preferences))
            text == Get(Get(user_preferences))
        IN  /\ loop'.refresh_interval = sync_cache_age_seconds(user_preferences)
            /\ ~stored => loop'.refresh_interval = 600
            /\ (stored /\ DigitRuns(text) = {}) => loop'.refresh_interval = 600
            /\ (stored /\ DigitRuns(text) # {}) =>
                   loop'.refresh_interval
                       = (IF IntegerOf(text) >= 60 THEN IntegerOf(text) ELSE 60)

\* C30: the interval the background loop takes from the preferences when it
\* wakes equals the cache TTL of sync_weather on the same store, whether the
\* refresh_interval row is absent, null, not an integer, an integer below 60
\* or one of 60 or more: 600 on absence or parse failure, else max(60, n).
C30_LoopIntervalIsCacheTtl == []C30_SameOnStore /\ [][C30_Step]_vars

\* the loop woke on a null refresh_interval, took 600 and sleeps until 600
C30_Witness ==
    /\ user_preferences = Some(None)
    /\ loop.pc = "sleep"
    /\ loop.refresh_interval = 600
    /\ loop.wake_at = now + 600
    /\ IsSome(ended.pass)

====
